---- MODULE Spec2Model ----
(***************************************************************************)
(* Safe transaction hasher: the EIP-712 hash pipeline of the two hasher    *)
(* classes (ViemSafeTransactionHasher, EthersSafeTransactionHasher) and    *)
(* the TransactionDataDecoder, as state machines over byte sequences.      *)
(*                                                                         *)
(* Bytes are the integers 0..255; a hash, an address and the call data are *)
(* sequences of bytes; a JavaScript string is a sequence of one-character  *)
(* strings.  keccak256 is computed, not assumed: Keccak-f[1600] over a     *)
(* state of 200 bytes (25 little-endian lanes of 8 bytes), rate 136,       *)
(* padding 0x01 .. 0x80, output 32 bytes.                                  *)
(***************************************************************************)
EXTENDS Integers, Sequences, FiniteSets, TLC

Byte == 0..255

(***************************************************************************)
(* Bitwise operations on bytes, tabulated once (nibble tables first).      *)
(***************************************************************************)
Bit(a, k) == (a \div (2^k)) % 2
XorBit(a, b, k) == ((Bit(a, k) + Bit(b, k)) % 2) * (2^k)
AndNotBit(a, b, k) == ((1 - Bit(a, k)) * Bit(b, k)) * (2^k)
Xor4 ==
  [a \in 0..15 |-> [b \in 0..15 |->
     XorBit(a, b, 0) + XorBit(a, b, 1) + XorBit(a, b, 2) + XorBit(a, b, 3)]]
AndNot4 ==
  [a \in 0..15 |-> [b \in 0..15 |->
     AndNotBit(a, b, 0) + AndNotBit(a, b, 1) + AndNotBit(a, b, 2) + AndNotBit(a, b, 3)]]
\* Xor8[a][b] = a XOR b
Xor8 ==
  [a \in Byte |-> [b \in Byte |->
     16 * Xor4[a \div 16][b \div 16] + Xor4[a % 16][b % 16]]]
\* AndNot8[a][b] = (NOT a) AND b
AndNot8 ==
  [a \in Byte |-> [b \in Byte |->
     16 * AndNot4[a \div 16][b \div 16] + AndNot4[a % 16][b % 16]]]
\* the two bytes that meet in one byte of a lane rotated left by r bits
Shl8 == [r \in 0..7 |-> [b \in Byte |-> (b * (2^r)) % 256]]
Shr8 == [r \in 0..7 |-> [b \in Byte |-> b \div (2^(8 - r))]]

(***************************************************************************)
(* Keccak-f[1600].  Lane k = x + 5y is bytes 8k .. 8k+7 of the state,      *)
(* least significant byte first.  The membership tests make TLC build      *)
(* each intermediate state once instead of re-evaluating it per byte.      *)
(***************************************************************************)
KeccakState == [0..199 -> Byte]
KeccakColumns == [0..39 -> Byte]

\* the 24 round constants, 8 little-endian bytes each
RC ==
  << <<   1,   0,   0,   0,   0,   0,   0,   0 >>,
     << 130, 128,   0,   0,   0,   0,   0,   0 >>,
     << 138, 128,   0,   0,   0,   0,   0, 128 >>,
     <<   0, 128,   0, 128,   0,   0,   0, 128 >>,
     << 139, 128,   0,   0,   0,   0,   0,   0 >>,
     <<   1,   0,   0, 128,   0,   0,   0,   0 >>,
     << 129, 128,   0, 128,   0,   0,   0, 128 >>,
     <<   9, 128,   0,   0,   0,   0,   0, 128 >>,
     << 138,   0,   0,   0,   0,   0,   0,   0 >>,
     << 136,   0,   0,   0,   0,   0,   0,   0 >>,
     <<   9, 128,   0, 128,   0,   0,   0,   0 >>,
     <<  10,   0,   0, 128,   0,   0,   0,   0 >>,
     << 139, 128,   0, 128,   0,   0,   0,   0 >>,
     << 139,   0,   0,   0,   0,   0,   0, 128 >>,
     << 137, 128,   0,   0,   0,   0,   0, 128 >>,
     <<   3, 128,   0,   0,   0,   0,   0, 128 >>,
     <<   2, 128,   0,   0,   0,   0,   0, 128 >>,
     << 128,   0,   0,   0,   0,   0,   0, 128 >>,
     <<  10, 128,   0,   0,   0,   0,   0,   0 >>,
     <<  10,   0,   0, 128,   0,   0,   0, 128 >>,
     << 129, 128,   0, 128,   0,   0,   0, 128 >>,
     << 128, 128,   0,   0,   0,   0,   0, 128 >>,
     <<   1,   0,   0, 128,   0,   0,   0,   0 >>,
     <<   8, 128,   0, 128,   0,   0,   0, 128 >> >>

\* rotation offsets r[x,y] at index x + 5y + 1
RhoOffsets ==
  << 0, 1, 62, 28, 27,
     36, 44, 6, 55, 20,
     3, 10, 43, 25, 39,
     41, 45, 15, 21, 8,
     18, 2, 61, 56, 14 >>

\* theta: C[x] = A[x,0] ^ .. ^ A[x,4];  D[x] = C[x-1] ^ rot(C[x+1], 1);  A[x,y] ^= D[x]
ThetaC(A) ==
  [n \in 0..39 |->
     Xor8[Xor8[Xor8[A[n]][A[n + 40]]][Xor8[A[n + 80]][A[n + 120]]]][A[n + 160]]]
ThetaPrev == [n \in 0..39 |-> 8 * (((n \div 8) + 4) % 5) + (n % 8)]
ThetaNextHi == [n \in 0..39 |-> 8 * (((n \div 8) + 1) % 5) + (n % 8)]
ThetaNextLo == [n \in 0..39 |-> 8 * (((n \div 8) + 1) % 5) + (((n % 8) + 7) % 8)]
ThetaD(C) ==
  CASE C \in KeccakColumns ->
    [n \in 0..39 |->
       Xor8[C[ThetaPrev[n]]][Shl8[1][C[ThetaNextHi[n]]] + Shr8[1][C[ThetaNextLo[n]]]]]
ThetaApply(A, D) ==
  CASE D \in KeccakColumns -> [n \in 0..199 |-> Xor8[A[n]][D[n % 40]]]
Theta(A) ==
  CASE A \in KeccakState -> ThetaApply(A, ThetaD(ThetaC(A)))

\* rho and pi: B[y, 2x+3y] = rot(A[x,y], r[x,y]); PiSrc(k) is the lane moved to lane k
PiSrc(k) == (((k % 5) + 3 * (k \div 5)) % 5) + 5 * (k % 5)
RhoBits == [n \in 0..199 |-> RhoOffsets[PiSrc(n \div 8) + 1] % 8]
RhoHi ==
  [n \in 0..199 |->
     8 * PiSrc(n \div 8) + (((n % 8) - (RhoOffsets[PiSrc(n \div 8) + 1] \div 8) + 8) % 8)]
RhoLo ==
  [n \in 0..199 |->
     8 * PiSrc(n \div 8) + (((n % 8) - (RhoOffsets[PiSrc(n \div 8) + 1] \div 8) + 7) % 8)]
RhoPi(A) ==
  CASE A \in KeccakState ->
    [n \in 0..199 |-> Shl8[RhoBits[n]][A[RhoHi[n]]] + Shr8[RhoBits[n]][A[RhoLo[n]]]]

\* chi: A[x,y] = B[x,y] ^ (~B[x+1,y] & B[x+2,y])
ChiLane(k, d) == (((k % 5) + d) % 5) + 5 * (k \div 5)
Chi1 == [n \in 0..199 |-> 8 * ChiLane(n \div 8, 1) + (n % 8)]
Chi2 == [n \in 0..199 |-> 8 * ChiLane(n \div 8, 2) + (n % 8)]
Chi(B) ==
  CASE B \in KeccakState ->
    [n \in 0..199 |-> Xor8[B[n]][AndNot8[B[Chi1[n]]][B[Chi2[n]]]]]

\* iota: A[0,0] ^= RC[r]
Iota(A, r) ==
  CASE A \in KeccakState ->
    [n \in 0..199 |-> IF n < 8 THEN Xor8[A[n]][RC[r][n + 1]] ELSE A[n]]

Round(A, r) == Iota(Chi(RhoPi(Theta(A))), r)

RECURSIVE KeccakF(_, _)
KeccakF(A, r) ==
  CASE A \in KeccakState -> IF r > 24 THEN A ELSE KeccakF(Round(A, r), r + 1)

\* the sponge: 136 bytes of rate for a 256-bit capacity-512 hash
Rate == 136

Zeros(n) == [i \in 1..n |-> 0]

\* pad10*1 with Keccak's domain byte 0x01 (0x81 when one byte is missing)
Pad(msg) ==
  IF Len(msg) % Rate = Rate - 1
    THEN msg \o <<129>>
    ELSE msg \o <<1>> \o Zeros(Rate - 2 - (Len(msg) % Rate)) \o <<128>>

RECURSIVE Absorb(_, _)
Absorb(A, p) ==
  IF p = <<>>
    THEN A
    ELSE Absorb(KeccakF([n \in 0..199 |-> IF n < Rate THEN Xor8[A[n]][p[n + 1]] ELSE A[n]], 1),
                SubSeq(p, Rate + 1, Len(p)))

Squeeze(A) == CASE A \in KeccakState -> [n \in 1..32 |-> A[n - 1]]

\* keccak256 of a byte sequence: 32 bytes
keccak256(msg) == Squeeze(Absorb([n \in 0..199 |-> 0], Pad(msg)))

(***************************************************************************)
(* Strings and bytes.                                                      *)
(***************************************************************************)
\* the printable ASCII characters, code 32 first
Ascii ==
  << " ", "!", "QUOTE", "#", "$", "%", "&", "'", "(", ")", "*", "+",
     ",", "-", ".", "/", "0", "1", "2", "3", "4", "5", "6", "7",
     "8", "9", ":", ";", "<", "=", ">", "?", "@", "A", "B", "C",
     "D", "E", "F", "G", "H", "I", "J", "K", "L", "M", "N", "O",
     "P", "Q", "R", "S", "T", "U", "V", "W", "X", "Y", "Z", "[",
     "BACKSLASH", "]", "^", "_", "BACKTICK", "a", "b", "c", "d", "e", "f", "g",
     "h", "i", "j", "k", "l", "m", "n", "o", "p", "q", "r", "s",
     "t", "u", "v", "w", "x", "y", "z", "{", "|", "}", "~" >>

CharCode(c) == 31 + (CHOOSE i \in 1..Len(Ascii) : Ascii[i] = c)

\* ethers.toUtf8Bytes on an ASCII string
toUtf8Bytes(str) == [i \in 1..Len(str) |-> CharCode(str[i])]
\* the hexadecimal digits, value 0 first
HexChars ==
  << "0", "1", "2", "3", "4", "5", "6", "7", "8", "9", "a", "b", "c", "d", "e", "f" >>
UpperHexChars ==
  << "0", "1", "2", "3", "4", "5", "6", "7", "8", "9", "A", "B", "C", "D", "E", "F" >>

HexValue(c) ==
  (CHOOSE i \in 1..16 : HexChars[i] = c \/ UpperHexChars[i] = c) - 1

\* viem toHex on an ASCII string: "0x" and two lower-case digits per byte
toHex(str) ==
  <<"0", "x">> \o
  [i \in 1..(2 * Len(str)) |->
     IF i % 2 = 1 THEN HexChars[(CharCode(str[(i + 1) \div 2]) \div 16) + 1]
                  ELSE HexChars[(CharCode(str[i \div 2]) % 16) + 1]]

\* viem hexToBytes: the bytes a 0x-prefixed hex string of even length stands for
hexToBytes(hex) ==
  [i \in 1..((Len(hex) - 2) \div 2) |->
     16 * HexValue(hex[2 * i + 1]) + HexValue(hex[2 * i + 2])]

\* a variant that hashes the characters of the hex string
Viem_keccak256_OfText(hex) == keccak256(toUtf8Bytes(hex))

\* viem keccak256 of a hex string hashes the bytes the string stands for
Viem_keccak256(hex) == keccak256(hexToBytes(hex))

\* ethers.concat / viem concat: the byte arrays one after another
RECURSIVE concat(_)
concat(parts) == IF parts = <<>> THEN <<>> ELSE Head(parts) \o concat(Tail(parts))

(***************************************************************************)
(* ABI encoding of static types: one 32-byte word per value.               *)
(***************************************************************************)
RECURSIVE BigEndian(_, _)
BigEndian(v, n) == IF n = 0 THEN <<>> ELSE BigEndian(v \div 256, n - 1) \o <<v % 256>>

\* a variant that pads an address on the right, as a bytes20 would be
EncodeWord_AddressRightPadded(type, v) ==
  CASE type = "bytes32" -> v
    [] type = "address" -> v \o Zeros(12)
    [] type = "uint256" -> BigEndian(v, 32)
    [] type = "uint8"   -> BigEndian(v, 32)

\* a variant that puts a uint8 in the first byte of its word
EncodeWord_Uint8RightPadded(type, v) ==
  CASE type = "bytes32" -> v
    [] type = "address" -> Zeros(12) \o v
    [] type = "uint256" -> BigEndian(v, 32)
    [] type = "uint8"   -> <<v>> \o Zeros(31)

EncodeWord(type, v) ==
  CASE type = "bytes32" -> v
    [] type = "address" -> Zeros(12) \o v
    [] type = "uint256" -> BigEndian(v, 32)
    [] type = "uint8"   -> BigEndian(v, 32)

\* ethers AbiCoder.encode / viem encodeAbiParameters
RECURSIVE AbiEncode(_, _)
AbiEncode(types, values) ==
  IF types = <<>>
    THEN <<>>
    ELSE EncodeWord(Head(types), Head(values)) \o AbiEncode(Tail(types), Tail(values))

\* BigInt(n) of an integral JavaScript number
BigInt(n) == n

(***************************************************************************)
(* The two EIP-712 type strings.                                           *)
(***************************************************************************)
EIP712DomainType ==
  << "E", "I", "P", "7", "1", "2", "D", "o", "m", "a", "i", "n",
     "(", "u", "i", "n", "t", "2", "5", "6", " ", "c", "h", "a",
     "i", "n", "I", "d", ",", "a", "d", "d", "r", "e", "s", "s",
     " ", "v", "e", "r", "i", "f", "y", "i", "n", "g", "C", "o",
     "n", "t", "r", "a", "c", "t", ")" >>

SafeTxType ==
  << "S", "a", "f", "e", "T", "x", "(", "a", "d", "d", "r", "e",
     "s", "s", " ", "t", "o", ",", "u", "i", "n", "t", "2", "5",
     "6", " ", "v", "a", "l", "u", "e", ",", "b", "y", "t", "e",
     "s", " ", "d", "a", "t", "a", ",", "u", "i", "n", "t", "8",
     " ", "o", "p", "e", "r", "a", "t", "i", "o", "n", ",", "u",
     "i", "n", "t", "2", "5", "6", " ", "s", "a", "f", "e", "T",
     "x", "G", "a", "s", ",", "u", "i", "n", "t", "2", "5", "6",
     " ", "b", "a", "s", "e", "G", "a", "s", ",", "u", "i", "n",
     "t", "2", "5", "6", " ", "g", "a", "s", "P", "r", "i", "c",
     "e", ",", "a", "d", "d", "r", "e", "s", "s", " ", "g", "a",
     "s", "T", "o", "k", "e", "n", ",", "a", "d", "d", "r", "e",
     "s", "s", " ", "r", "e", "f", "u", "n", "d", "R", "e", "c",
     "e", "i", "v", "e", "r", ",", "u", "i", "n", "t", "2", "5",
     "6", " ", "n", "o", "n", "c", "e", ")" >>

(***************************************************************************)
(* ViemSafeTransactionHasher.  `this` is the record of the instance's      *)
(* fields.  An address, a digest or call data is the sequence of its       *)
(* bytes, in both classes.                                                 *)
(***************************************************************************)
Viem_calculateDomainHash(this) ==
  keccak256(AbiEncode(<< "bytes32", "uint256", "address" >>,
                      << this.DOMAIN_SEPARATOR_TYPEHASH,
                         BigInt(this.domain.chainId),
                         this.domain.verifyingContract >>))

ViemSafeTransactionHasher(domain) ==
  LET this == [DOMAIN_SEPARATOR_TYPEHASH |-> Viem_keccak256(toHex(EIP712DomainType)),
               SAFE_TX_TYPEHASH |-> Viem_keccak256(toHex(SafeTxType)),
               domain |-> domain]
  IN  [impl |-> "viem",
       DOMAIN_SEPARATOR_TYPEHASH |-> this.DOMAIN_SEPARATOR_TYPEHASH,
       SAFE_TX_TYPEHASH |-> this.SAFE_TX_TYPEHASH,
       domain |-> this.domain,
       domainHash |-> Viem_calculateDomainHash(this)]

Viem_getTypeHashes(this) ==
  [safeTxTypeHash |-> this.SAFE_TX_TYPEHASH,
   domainSeparatorTypeHash |-> this.DOMAIN_SEPARATOR_TYPEHASH]

Viem_getDomainHash(this) == this.domainHash

\* a variant that encodes baseGas a second time where gasPrice belongs
Viem_calculateRawSafeTxHash_GasPriceDropped(this, tx) ==
  LET dataHash == keccak256(tx.data)
  IN  keccak256(AbiEncode(
        << "bytes32", "address", "uint256", "bytes32", "uint8", "uint256",
           "uint256", "uint256", "address", "address", "uint256" >>,
        << this.SAFE_TX_TYPEHASH, tx.to, tx.value, dataHash, tx.operation,
           tx.safeTxGas, tx.baseGas, tx.baseGas, tx.gasToken,
           tx.refundReceiver, BigInt(tx.nonce) >>))

Viem_calculateRawSafeTxHash(this, tx) ==
  LET dataHash == keccak256(tx.data)
  IN  keccak256(AbiEncode(
        << "bytes32", "address", "uint256", "bytes32", "uint8", "uint256",
           "uint256", "uint256", "address", "address", "uint256" >>,
        << this.SAFE_TX_TYPEHASH, tx.to, tx.value, dataHash, tx.operation,
           tx.safeTxGas, tx.baseGas, tx.gasPrice, tx.gasToken,
           tx.refundReceiver, BigInt(tx.nonce) >>))

\* a variant that packs the message hash before the domain hash
Viem_calculateFinalSafeTxHash_RawFirst(this, tx) ==
  LET rawSafeTxHash == Viem_calculateRawSafeTxHash(this, tx)
      packedData == concat(<< <<25>>, <<1>>, rawSafeTxHash, this.domainHash >>)
  IN  keccak256(packedData)

Viem_calculateFinalSafeTxHash(this, tx) ==
  LET rawSafeTxHash == Viem_calculateRawSafeTxHash(this, tx)
      packedData == concat(<< <<25>>, <<1>>, this.domainHash, rawSafeTxHash >>)
  IN  keccak256(packedData)

Viem_calculateMessageHash(this, tx) == Viem_calculateRawSafeTxHash(this, tx)

Viem_calculateSafeTransactionHash(this, tx) == Viem_calculateFinalSafeTxHash(this, tx)

Viem_getAllHashes(this, tx) ==
  LET messageHash == Viem_calculateRawSafeTxHash(this, tx)
      safeTxHash == Viem_calculateFinalSafeTxHash(this, tx)
  IN  [safeTxHash |-> safeTxHash,
       domainHash |-> this.domainHash,
       messageHash |-> messageHash]

(***************************************************************************)
(* EthersSafeTransactionHasher.                                            *)
(***************************************************************************)
\* a variant that encodes the contract before the chain
Ethers_calculateDomainHash_ContractFirst(this) ==
  LET encodedDomain ==
        AbiEncode(<< "bytes32", "address", "uint256" >>,
                  << this.DOMAIN_SEPARATOR_TYPEHASH,
                     this.domain.verifyingContract,
                     this.domain.chainId >>)
  IN  keccak256(encodedDomain)

Ethers_calculateDomainHash(this) ==
  LET encodedDomain ==
        AbiEncode(<< "bytes32", "uint256", "address" >>,
                  << this.DOMAIN_SEPARATOR_TYPEHASH,
                     this.domain.chainId,
                     this.domain.verifyingContract >>)
  IN  keccak256(encodedDomain)

EthersSafeTransactionHasher(domain) ==
  LET this == [DOMAIN_SEPARATOR_TYPEHASH |-> keccak256(toUtf8Bytes(EIP712DomainType)),
               SAFE_TX_TYPEHASH |-> keccak256(toUtf8Bytes(SafeTxType)),
               domain |-> domain]
  IN  [impl |-> "ethers",
       DOMAIN_SEPARATOR_TYPEHASH |-> this.DOMAIN_SEPARATOR_TYPEHASH,
       SAFE_TX_TYPEHASH |-> this.SAFE_TX_TYPEHASH,
       domain |-> this.domain,
       domainHash |-> Ethers_calculateDomainHash(this)]

Ethers_getTypeHashes(this) ==
  [safeTxTypeHash |-> this.SAFE_TX_TYPEHASH,
   domainSeparatorTypeHash |-> this.DOMAIN_SEPARATOR_TYPEHASH]

Ethers_getDomainHash(this) == this.domainHash

\* a variant that binds the message hash to the domain: the domain hash
\* stands where SAFE_TX_TYPEHASH belongs
Ethers_calculateRawSafeTxHash_DomainBound(this, tx) ==
  LET dataHash == keccak256(tx.data)
      encodedData ==
        AbiEncode(
          << "bytes32", "address", "uint256", "bytes32", "uint8", "uint256",
             "uint256", "uint256", "address", "address", "uint256" >>,
          << this.domainHash, tx.to, tx.value, dataHash, tx.operation,
             tx.safeTxGas, tx.baseGas, tx.gasPrice, tx.gasToken,
             tx.refundReceiver, tx.nonce >>)
  IN  keccak256(encodedData)

Ethers_calculateRawSafeTxHash(this, tx) ==
  LET dataHash == keccak256(tx.data)
      encodedData ==
        AbiEncode(
          << "bytes32", "address", "uint256", "bytes32", "uint8", "uint256",
             "uint256", "uint256", "address", "address", "uint256" >>,
          << this.SAFE_TX_TYPEHASH, tx.to, tx.value, dataHash, tx.operation,
             tx.safeTxGas, tx.baseGas, tx.gasPrice, tx.gasToken,
             tx.refundReceiver, tx.nonce >>)
  IN  keccak256(encodedData)

Ethers_calculateFinalSafeTxHash(this, tx) ==
  LET rawSafeTxHash == Ethers_calculateRawSafeTxHash(this, tx)
      packedData == concat(<< <<25>>, <<1>>, this.domainHash, rawSafeTxHash >>)
  IN  keccak256(packedData)

Ethers_calculateMessageHash(this, tx) == Ethers_calculateRawSafeTxHash(this, tx)

Ethers_calculateSafeTransactionHash(this, tx) == Ethers_calculateFinalSafeTxHash(this, tx)

Ethers_getAllHashes(this, tx) ==
  LET messageHash == Ethers_calculateRawSafeTxHash(this, tx)
      safeTxHash == Ethers_calculateFinalSafeTxHash(this, tx)
  IN  [safeTxHash |-> safeTxHash,
       domainHash |-> this.domainHash,
       messageHash |-> messageHash]

(***************************************************************************)
(* ISafeTransactionHasher: a call on a hasher runs its class's method.     *)
(***************************************************************************)
Implementations == {"viem", "ethers"}

NewHasher(impl, domain) ==
  IF impl = "viem" THEN ViemSafeTransactionHasher(domain)
                   ELSE EthersSafeTransactionHasher(domain)

getTypeHashes(h) ==
  IF h.impl = "viem" THEN Viem_getTypeHashes(h) ELSE Ethers_getTypeHashes(h)

getDomainHash(h) ==
  IF h.impl = "viem" THEN Viem_getDomainHash(h) ELSE Ethers_getDomainHash(h)

calculateRawSafeTxHash(h, tx) ==
  IF h.impl = "viem" THEN Viem_calculateRawSafeTxHash(h, tx)
                     ELSE Ethers_calculateRawSafeTxHash(h, tx)

calculateFinalSafeTxHash(h, tx) ==
  IF h.impl = "viem" THEN Viem_calculateFinalSafeTxHash(h, tx)
                     ELSE Ethers_calculateFinalSafeTxHash(h, tx)

calculateMessageHash(h, tx) ==
  IF h.impl = "viem" THEN Viem_calculateMessageHash(h, tx)
                     ELSE Ethers_calculateMessageHash(h, tx)

calculateSafeTransactionHash(h, tx) ==
  IF h.impl = "viem" THEN Viem_calculateSafeTransactionHash(h, tx)
                     ELSE Ethers_calculateSafeTransactionHash(h, tx)

getAllHashes(h, tx) ==
  IF h.impl = "viem" THEN Viem_getAllHashes(h, tx) ELSE Ethers_getAllHashes(h, tx)

(***************************************************************************)
(* Inputs: the domain and transaction records of the test suite, of the    *)
(* example and of the command line's defaults.                             *)
(***************************************************************************)
zeroAddress == Zeros(20)

\* 0xDb73ba19F072D0Fbc865781Ba468A9F8B77aD2C4
SafeAddress ==
  << 219, 115, 186, 25, 240, 114, 208, 251, 200, 101,
     120, 27, 164, 104, 169, 248, 183, 122, 210, 196 >>

\* 0x8b4B268a9aA797fD60889E88AC7bE9a0C4b37Ff4
RecipientAddress ==
  << 139, 75, 38, 138, 154, 167, 151, 253, 96, 136,
     158, 136, 172, 123, 233, 160, 196, 179, 127, 244 >>

\* 0x176211869ca2b568f2a7d4ee941e073a821ee1ff
TokenAddress ==
  << 23, 98, 17, 134, 156, 162, 181, 104, 242, 167,
     212, 238, 148, 30, 7, 58, 130, 30, 225, 255 >>

\* transfer(0x8b4b268a9aa797fd60889e88ac7be9a0c4b37ff4, 0x511b5ac00)
TransferData ==
  << 169, 5, 156, 187, 0, 0, 0, 0, 0, 0, 0, 0, 0, 0, 0, 0,
     139, 75, 38, 138, 154, 167, 151, 253, 96, 136, 158, 136, 172, 123, 233, 160,
     196, 179, 127, 244, 0, 0, 0, 0, 0, 0, 0, 0, 0, 0, 0, 0,
     0, 0, 0, 0, 0, 0, 0, 0, 0, 0, 0, 0, 0, 0, 0, 5,
     17, 181, 172, 0 >>

\* the domain of the test suite and of the example: chains.linea.id
TestDomain == [chainId |-> 59144, verifyingContract |-> SafeAddress]

\* the command line's defaults: --chain-id 1 and no --safe-address
DefaultDomain == [chainId |-> 1, verifyingContract |-> zeroAddress]

Domains == {TestDomain, DefaultDomain}

\* the transaction of the test suite
TestTx ==
  [to |-> RecipientAddress, value |-> 0, data |-> TransferData, operation |-> 0,
   safeTxGas |-> 0, baseGas |-> 0, gasPrice |-> 0, gasToken |-> zeroAddress,
   refundReceiver |-> zeroAddress, nonce |-> 60]

\* the transaction of the example
ExampleTx == [TestTx EXCEPT !.to = TokenAddress]

\* a delegate call with every optional field set and no call data
DelegateTx ==
  [to |-> SafeAddress, value |-> 1000000000, data |-> <<>>, operation |-> 1,
   safeTxGas |-> 21000, baseGas |-> 256, gasPrice |-> 65536, gasToken |-> TokenAddress,
   refundReceiver |-> RecipientAddress, nonce |-> 0]

Txs == {TestTx, DelegateTx}

\* the hashes the test suite expects of TestDomain and TestTx
expectedHashes ==
  [domainHash |->
     << 122, 227, 129, 153, 146, 175, 156, 179, 65, 107, 251, 252, 72, 59, 66, 120,
        104, 206, 200, 37, 122, 184, 7, 68, 82, 18, 180, 138, 92, 168, 109, 253 >>,
   messageHash |->
     << 215, 162, 11, 192, 225, 137, 97, 239, 71, 229, 95, 134, 140, 220, 216, 212,
        26, 88, 187, 104, 158, 225, 131, 125, 175, 232, 170, 153, 165, 136, 73, 74 >>,
   safeTxHash |->
     << 100, 184, 101, 161, 58, 77, 41, 104, 198, 246, 66, 138, 68, 3, 162, 223,
        51, 195, 81, 113, 212, 130, 50, 34, 56, 187, 172, 34, 105, 142, 97, 137 >>]

\* the type hashes the test suite expects of both classes
expectedTypeHashes ==
  [domainSeparatorTypeHash |->
     << 71, 231, 149, 52, 162, 69, 149, 46, 139, 22, 137, 58, 51, 107, 133, 163,
        217, 234, 159, 168, 197, 115, 243, 216, 3, 175, 185, 42, 121, 70, 146, 24 >>,
   safeTxTypeHash |->
     << 187, 131, 16, 212, 134, 54, 141, 182, 189, 111, 132, 148, 2, 253, 215, 58,
        213, 61, 49, 107, 90, 75, 38, 68, 173, 110, 254, 15, 148, 18, 134, 216 >>]

\* the fields of a transaction record
TxFields ==
  {"to", "value", "data", "operation", "safeTxGas", "baseGas", "gasPrice",
   "gasToken", "refundReceiver", "nonce"}

\* the test suite's transaction and, for each field, one record that differs
\* from it in that field alone: another address, the lowest bit of an amount,
\* the last byte of the call data, the other operation, the next nonce
FieldTxs ==
  { TestTx,
    ExampleTx,
    [TestTx EXCEPT !.value = 1],
    [TestTx EXCEPT !.data = [TransferData EXCEPT ![68] = 1]],
    [TestTx EXCEPT !.operation = 1],
    [TestTx EXCEPT !.safeTxGas = 1],
    [TestTx EXCEPT !.baseGas = 1],
    [TestTx EXCEPT !.gasPrice = 1],
    [TestTx EXCEPT !.gasToken = TokenAddress],
    [TestTx EXCEPT !.refundReceiver = RecipientAddress],
    [TestTx EXCEPT !.nonce = 61] }

(***************************************************************************)
(* TransactionDataDecoder.validateHexData.  A string is a sequence of      *)
(* one-character strings.                                                  *)
(***************************************************************************)
HexDigits ==
  {"0", "1", "2", "3", "4", "5", "6", "7", "8", "9",
   "a", "b", "c", "d", "e", "f", "A", "B", "C", "D", "E", "F"}

\* data.startsWith(prefix)
startsWith(data, prefix) ==
  /\ Len(data) >= Len(prefix)
  /\ SubSeq(data, 1, Len(prefix)) = prefix

\* /^0x[0-9a-fA-F]*$/.test(data)
hexRegexTest(data) ==
  /\ Len(data) >= 2
  /\ data[1] = "0"
  /\ data[2] = "x"
  /\ \A i \in 3..Len(data) : data[i] \in HexDigits

\* `typeof data !== "string"` is false of every string and is left out
\* a variant without the check of the length
validateHexData_AnyLength(data) ==
  IF data = <<>>
    THEN [valid |-> FALSE, error |-> "Data is empty"]
  ELSE IF ~startsWith(data, <<"0", "x">>)
    THEN [valid |-> FALSE, error |-> "Hex data must start with 0x"]
  ELSE IF ~hexRegexTest(data)
    THEN [valid |-> FALSE, error |-> "Data contains invalid hex characters"]
  ELSE [valid |-> TRUE]

\* a variant that checks the length before the characters
validateHexData_LengthFirst(data) ==
  IF data = <<>>
    THEN [valid |-> FALSE, error |-> "Data is empty"]
  ELSE IF ~startsWith(data, <<"0", "x">>)
    THEN [valid |-> FALSE, error |-> "Hex data must start with 0x"]
  ELSE IF (Len(data) - 2) % 2 # 0
    THEN [valid |-> FALSE, error |-> "Hex data must have even length"]
  ELSE IF ~hexRegexTest(data)
    THEN [valid |-> FALSE, error |-> "Data contains invalid hex characters"]
  ELSE [valid |-> TRUE]

validateHexData(data) ==
  IF data = <<>>
    THEN [valid |-> FALSE, error |-> "Data is empty"]
  ELSE IF ~startsWith(data, <<"0", "x">>)
    THEN [valid |-> FALSE, error |-> "Hex data must start with 0x"]
  ELSE IF ~hexRegexTest(data)
    THEN [valid |-> FALSE, error |-> "Data contains invalid hex characters"]
  ELSE IF (Len(data) - 2) % 2 # 0
    THEN [valid |-> FALSE, error |-> "Hex data must have even length"]
  ELSE [valid |-> TRUE]

(***************************************************************************)
(* The ethers functions the decoder calls.  A function that can throw      *)
(* returns [ok |-> TRUE, value |-> v] or [ok |-> FALSE, message |-> m]; a  *)
(* message is a sequence of pieces of text, a fixed piece of the source    *)
(* being one element.                                                      *)
(***************************************************************************)
\* ethers.getBytes of a valid hex string
getBytes(hex) == hexToBytes(hex)

\* ethers.hexlify: "0x" and two lower-case digits per byte
hexlify(bytes) ==
  <<"0", "x">> \o
  [i \in 1..(2 * Len(bytes)) |->
     IF i % 2 = 1 THEN HexChars[(bytes[(i + 1) \div 2] \div 16) + 1]
                  ELSE HexChars[(bytes[i \div 2] % 16) + 1]]

\* ethers.dataSlice(data, start): the bytes from offset start on
dataSlice(data, start) ==
  LET bytes == getBytes(data)
  IN  hexlify(SubSeq(bytes, start + 1, Len(bytes)))

Utf8Error(reason) == [ok |-> FALSE, message |-> <<"invalid codepoint: ", reason>>]

\* the first byte from i on that is no one-byte character, or the end
NextMultiByte(bytes, i) ==
  LET stops == {j \in i..Len(bytes) : bytes[j] >= 128}
  IN  IF stops = {} THEN Len(bytes) + 1
      ELSE CHOOSE j \in stops : \A k \in stops : j <= k

\* ethers getUtf8CodePoints with the default error strategy, which throws at
\* the first byte sequence that is not UTF-8; i is the next byte, from 1, and
\* a run of one-byte characters is taken in one step
RECURSIVE getUtf8CodePoints(_, _, _)
getUtf8CodePoints(bytes, i, result) ==
  IF i > Len(bytes) THEN [ok |-> TRUE, value |-> result]
  ELSE IF bytes[i] < 128
    THEN getUtf8CodePoints(bytes, NextMultiByte(bytes, i),
                           result \o SubSeq(bytes, i, NextMultiByte(bytes, i) - 1))
  ELSE
    LET c == bytes[i]
        extraLength == IF c < 224 THEN 1 ELSE IF c < 240 THEN 2 ELSE 3
        overlongMask == IF c < 224 THEN 127 ELSE IF c < 240 THEN 2047 ELSE 65535
        lead == IF c < 224 THEN c % 64 ELSE IF c < 240 THEN c % 32 ELSE c % 16
        res == IF extraLength = 1 THEN lead * 64 + (bytes[i + 1] % 64)
               ELSE IF extraLength = 2
                 THEN (lead * 64 + (bytes[i + 1] % 64)) * 64 + (bytes[i + 2] % 64)
               ELSE ((lead * 64 + (bytes[i + 1] % 64)) * 64 + (bytes[i + 2] % 64)) * 64
                      + (bytes[i + 3] % 64)
    IN  IF c \in 128..191 THEN Utf8Error("unexpected continuation byte")
        ELSE IF c >= 248 THEN Utf8Error("bad codepoint prefix")
        ELSE IF i + extraLength > Len(bytes) THEN Utf8Error("string overrun")
        ELSE IF \E j \in 1..extraLength : bytes[i + j] \notin 128..191
          THEN Utf8Error("missing continuation byte")
        ELSE IF res > 1114111 THEN Utf8Error("out of UTF-8 range")
        ELSE IF res \in 55296..57343 THEN Utf8Error("UTF-16 surrogate")
        ELSE IF res <= overlongMask THEN Utf8Error("overlong representation")
        ELSE getUtf8CodePoints(bytes, i + extraLength + 1, Append(result, res))

\* the characters that are not printable ASCII, by code point
CodePointNames ==
  { <<0, "NUL">>, <<9, "TAB">>, <<10, "LF">>, <<11, "VT">>, <<12, "FF">>,
    <<13, "CR">>, <<127, "DEL">>, <<160, "NBSP">>, <<233, "U+00E9">>,
    <<65279, "BOM">> }

\* String.fromCodePoint
fromCodePoint(cp) ==
  IF cp \in 32..126 THEN Ascii[cp - 31]
  ELSE (CHOOSE e \in CodePointNames : e[1] = cp)[2]

\* ethers.toUtf8String of a hex string
toUtf8String(hex) ==
  LET decoded == getUtf8CodePoints(getBytes(hex), 1, <<>>)
  IN  IF decoded.ok
        THEN [ok |-> TRUE,
              value |-> [k \in 1..Len(decoded.value) |-> fromCodePoint(decoded.value[k])]]
        ELSE decoded

\* the white space String.prototype.trim removes, among the characters above
WhiteSpace == {" ", "TAB", "LF", "VT", "FF", "CR", "NBSP", "BOM"}

\* String.prototype.trim
RECURSIVE trimStart(_)
trimStart(str) ==
  IF str # <<>> /\ Head(str) \in WhiteSpace THEN trimStart(Tail(str)) ELSE str

RECURSIVE trimEnd(_)
trimEnd(str) ==
  IF str # <<>> /\ str[Len(str)] \in WhiteSpace
    THEN trimEnd(SubSeq(str, 1, Len(str) - 1))
    ELSE str

trim(str) == trimEnd(trimStart(str))

\* str.replace(/\0/g, "")
replaceNul(str) == SelectSeq(str, LAMBDA ch : ch # "NUL")

(***************************************************************************)
(* TransactionDataDecoder.decodeAsciiData.  A result's value is a string,  *)
(* its error a message; a field the source leaves out is no field of the   *)
(* record.                                                                 *)
(***************************************************************************)
\* a variant that removes the NUL characters before it trims
decodeAsciiData_NulFirst(encodedData) ==
  LET validation == validateHexData(encodedData)
  IN  IF ~validation.valid
        THEN [success |-> FALSE, value |-> <<>>, error |-> <<validation.error>>]
      ELSE IF Len(encodedData) < 66
        THEN [success |-> FALSE, value |-> <<>>,
              error |-> <<"Data too short, minimum 32 bytes required">>]
      ELSE
        LET text == toUtf8String(dataSlice(encodedData, 32))
        IN  IF text.ok
              THEN [success |-> TRUE, value |-> trim(replaceNul(text.value))]
              ELSE [success |-> FALSE, value |-> <<>>,
                    error |-> <<"Failed to decode data: ">> \o text.message]

\* a variant without the catch: the error of toUtf8String leaves the operation
decodeAsciiData_Uncaught(encodedData) ==
  LET validation == validateHexData(encodedData)
  IN  IF ~validation.valid
        THEN [success |-> FALSE, value |-> <<>>, error |-> <<validation.error>>]
      ELSE IF Len(encodedData) < 66
        THEN [success |-> FALSE, value |-> <<>>,
              error |-> <<"Data too short, minimum 32 bytes required">>]
      ELSE
        LET text == toUtf8String(dataSlice(encodedData, 32))
        IN  IF text.ok
              THEN [success |-> TRUE, value |-> replaceNul(trim(text.value))]
              ELSE text

decodeAsciiData(encodedData) ==
  LET validation == validateHexData(encodedData)
  IN  IF ~validation.valid
        THEN [success |-> FALSE, value |-> <<>>, error |-> <<validation.error>>]
      ELSE IF Len(encodedData) < 66
        THEN [success |-> FALSE, value |-> <<>>,
              error |-> <<"Data too short, minimum 32 bytes required">>]
      ELSE
        LET text == toUtf8String(dataSlice(encodedData, 32))
        IN  IF text.ok
              THEN [success |-> TRUE, value |-> replaceNul(trim(text.value))]
              ELSE [success |-> FALSE, value |-> <<>>,
                    error |-> <<"Failed to decode data: ">> \o text.message]

(***************************************************************************)
(* TransactionDataDecoder.decodeFunctionCall.                              *)
(***************************************************************************)
\* the value of a 32-byte word as a bigint: its base-256 digits, the most
\* significant first and not zero
RECURSIVE toBigInt(_)
toBigInt(bytes) ==
  IF bytes = <<>> THEN <<>>
  ELSE IF Head(bytes) = 0 THEN toBigInt(Tail(bytes))
  ELSE bytes

\* ethers AddressCoder.decode and NumberCoder.decode of one word; an address
\* is its 20 bytes (getAddress's spelling of them is left out), and the error
\* of a word that is no address is kept in the place of the value
DecodeWord(type, word) ==
  IF type = "address"
    THEN IF \A k \in 1..12 : word[k] = 0
           THEN [type |-> type, value |-> SubSeq(word, 13, 32)]
           ELSE [type |-> type, error |-> "value exceeds width (20 bytes)"]
    ELSE [type |-> type, value |-> toBigInt(word)]

\* ethers AbiCoder.decode of static types: one word per type, and a throw
\* when the data ends before the last word does
RECURSIVE AbiDecode(_, _)
AbiDecode(types, bytes) ==
  IF types = <<>> THEN [ok |-> TRUE, value |-> <<>>]
  ELSE IF Len(bytes) < 32 THEN [ok |-> FALSE, message |-> <<"data out-of-bounds">>]
  ELSE
    LET rest == AbiDecode(Tail(types), SubSeq(bytes, 33, Len(bytes)))
    IN  IF rest.ok
          THEN [ok |-> TRUE,
                value |-> <<DecodeWord(Head(types), SubSeq(bytes, 1, 32))>> \o rest.value]
          ELSE rest

\* the characters of a type's name
TypeText(type) ==
  IF type = "address" THEN <<"a", "d", "d", "r", "e", "s", "s">> ELSE <<"u", "i", "n", "t", "2", "5", "6">>

\* types.join(",")
RECURSIVE join(_)
join(types) ==
  IF types = <<>> THEN <<>>
  ELSE IF Len(types) = 1 THEN TypeText(types[1])
  ELSE TypeText(Head(types)) \o <<",">> \o join(Tail(types))

\* the table of the common ERC20 functions, by selector
knownFunctions ==
  (<<"0", "x", "a", "9", "0", "5", "9", "c", "b", "b">> :> [name |-> <<"t", "r", "a", "n", "s", "f", "e", "r">>, types |-> <<"address", "uint256">>])
  @@ (<<"0", "x", "2", "3", "b", "8", "7", "2", "d", "d">> :>
        [name |-> <<"t", "r", "a", "n", "s", "f", "e", "r", "F", "r", "o", "m">>, types |-> <<"address", "address", "uint256">>])
  @@ (<<"0", "x", "0", "9", "5", "e", "a", "7", "b", "3">> :> [name |-> <<"a", "p", "p", "r", "o", "v", "e">>, types |-> <<"address", "uint256">>])
  @@ (<<"0", "x", "7", "0", "a", "0", "8", "2", "3", "1">> :> [name |-> <<"b", "a", "l", "a", "n", "c", "e", "O", "f">>, types |-> <<"address">>])

\* a variant that checks the length before it validates
decodeFunctionCall_LengthFirst(encodedData) ==
  LET validation == validateHexData(encodedData)
  IN  IF Len(encodedData) < 10
        THEN [success |-> FALSE, value |-> <<>>,
              error |-> <<"Data too short, minimum 4 bytes required for function selector">>]
      ELSE IF ~validation.valid
        THEN [success |-> FALSE, value |-> <<>>, error |-> <<validation.error>>]
      ELSE
        LET functionSelector == SubSeq(encodedData, 1, 10)
        IN  IF functionSelector \in DOMAIN knownFunctions
              THEN
                LET knownFunction == knownFunctions[functionSelector]
                    paramData == <<"0", "x">> \o SubSeq(encodedData, 11, Len(encodedData))
                    decodedParams == AbiDecode(knownFunction.types, getBytes(paramData))
                IN  IF decodedParams.ok
                      THEN [success |-> TRUE,
                            value |-> knownFunction.name \o <<"(">>
                                        \o join(knownFunction.types) \o <<")">>,
                            signature |-> functionSelector,
                            name |-> knownFunction.name,
                            params |-> decodedParams.value]
                      ELSE [success |-> TRUE,
                            value |-> knownFunction.name,
                            signature |-> functionSelector,
                            name |-> knownFunction.name,
                            error |-> <<"Identified function but failed to decode parameters: ">>
                                        \o decodedParams.message]
              ELSE [success |-> TRUE,
                    value |-> functionSelector,
                    signature |-> functionSelector]

\* a variant that reports a selector it does not know as a failure
decodeFunctionCall_UnknownFails(encodedData) ==
  LET validation == validateHexData(encodedData)
  IN  IF ~validation.valid
        THEN [success |-> FALSE, value |-> <<>>, error |-> <<validation.error>>]
      ELSE IF Len(encodedData) < 10
        THEN [success |-> FALSE, value |-> <<>>,
              error |-> <<"Data too short, minimum 4 bytes required for function selector">>]
      ELSE
        LET functionSelector == SubSeq(encodedData, 1, 10)
        IN  IF functionSelector \in DOMAIN knownFunctions
              THEN
                LET knownFunction == knownFunctions[functionSelector]
                    paramData == <<"0", "x">> \o SubSeq(encodedData, 11, Len(encodedData))
                    decodedParams == AbiDecode(knownFunction.types, getBytes(paramData))
                IN  IF decodedParams.ok
                      THEN [success |-> TRUE,
                            value |-> knownFunction.name \o <<"(">>
                                        \o join(knownFunction.types) \o <<")">>,
                            signature |-> functionSelector,
                            name |-> knownFunction.name,
                            params |-> decodedParams.value]
                      ELSE [success |-> TRUE,
                            value |-> knownFunction.name,
                            signature |-> functionSelector,
                            name |-> knownFunction.name,
                            error |-> <<"Identified function but failed to decode parameters: ">>
                                        \o decodedParams.message]
              ELSE [success |-> FALSE,
                    value |-> <<>>,
                    error |-> <<"Unknown function selector">>]

decodeFunctionCall(encodedData) ==
  LET validation == validateHexData(encodedData)
  IN  IF ~validation.valid
        THEN [success |-> FALSE, value |-> <<>>, error |-> <<validation.error>>]
      ELSE IF Len(encodedData) < 10
        THEN [success |-> FALSE, value |-> <<>>,
              error |-> <<"Data too short, minimum 4 bytes required for function selector">>]
      ELSE
        LET functionSelector == SubSeq(encodedData, 1, 10)
        IN  IF functionSelector \in DOMAIN knownFunctions
              THEN
                LET knownFunction == knownFunctions[functionSelector]
                    paramData == <<"0", "x">> \o SubSeq(encodedData, 11, Len(encodedData))
                    decodedParams == AbiDecode(knownFunction.types, getBytes(paramData))
                IN  IF decodedParams.ok
                      THEN [success |-> TRUE,
                            value |-> knownFunction.name \o <<"(">>
                                        \o join(knownFunction.types) \o <<")">>,
                            signature |-> functionSelector,
                            name |-> knownFunction.name,
                            params |-> decodedParams.value]
                      ELSE [success |-> TRUE,
                            value |-> knownFunction.name,
                            signature |-> functionSelector,
                            name |-> knownFunction.name,
                            error |-> <<"Identified function but failed to decode parameters: ">>
                                        \o decodedParams.message]
              ELSE [success |-> TRUE,
                    value |-> functionSelector,
                    signature |-> functionSelector]

(***************************************************************************)
(* TransactionDataDecoder.formatDecodedData.                               *)
(***************************************************************************)
\* a variant that shortens a value of 100 characters too
formatDecodedData_TruncatesAtLimit(decodedData) ==
  IF ~decodedData.success
    THEN <<"Decoding Error: ">> \o decodedData.error
  ELSE IF Len(decodedData.value) >= 100
    THEN SubSeq(decodedData.value, 1, 100) \o <<".", ".", ".">>
  ELSE decodedData.value

\* a variant that keeps 99 characters of a long value
formatDecodedData_Keeps99(decodedData) ==
  IF ~decodedData.success
    THEN <<"Decoding Error: ">> \o decodedData.error
  ELSE IF Len(decodedData.value) > 100
    THEN SubSeq(decodedData.value, 1, 99) \o <<".", ".", ".">>
  ELSE decodedData.value

formatDecodedData(decodedData) ==
  IF ~decodedData.success
    THEN <<"Decoding Error: ">> \o decodedData.error
  ELSE IF Len(decodedData.value) > 100
    THEN SubSeq(decodedData.value, 1, 100) \o <<".", ".", ".">>
  ELSE decodedData.value

\* the characters the generated inputs are made of: the prefix, a digit, an
\* upper-case digit and a letter that is no digit
DecoderAlphabet == {"0", "x", "F", "g"}

\* the longest generated input
MaxLen == 4

RECURSIVE StringsOfLen(_)
StringsOfLen(n) ==
  IF n = 0 THEN {<<>>}
  ELSE {Append(s, c) : s \in StringsOfLen(n - 1), c \in DecoderAlphabet}

\* the strings of the decoder's tests and example
TestStrings ==
  { <<"0", "x", "1", "2", "3", "4", "a", "b", "c", "d">>,
    <<"1", "2", "3", "4", "a", "b", "c", "d">>,
    <<"0", "x", "1", "2", "3", "4", "a", "b", "c", "d", "x", "y", "z">>,
    <<"0", "x", "1", "2", "3">>,
    <<"0", "x", "1", "2", "3", "x", "y", "z">>,
    <<"0", "x", "0", "0">>,
    <<"0", "x", "a", "b", "c", "d", "e", "f">>,
    <<"0", "x">>,
    <<>> }

\* mixed case in the payload, an upper-case prefix, a lone prefix character
MixedCaseStrings ==
  { <<"0", "x", "a", "F">>,
    <<"0", "x", "A", "b", "C", "d", "E", "f">>,
    <<"0", "X", "0", "0">>,
    <<"0">> }

DecoderInputs ==
  UNION {StringsOfLen(n) : n \in 0..MaxLen} \cup TestStrings \cup MixedCaseStrings

(***************************************************************************)
(* Inputs of the decode operations.                                        *)
(***************************************************************************)
\* the word in front of the text: the length word of the tests' data (0x8a)
\* and a word of 0xff bytes
PrefixWords == {Zeros(31) \o <<138>>, [k \in 1..32 |-> 255]}

\* the bytes a generated payload is made of: NUL, space, "a", the two bytes
\* of U+00E9 and a byte that starts no UTF-8 sequence
PayloadBytes == {0, 32, 97, 195, 169, 255}

\* the longest generated payload, in bytes
MaxPayload == 3

RECURSIVE PayloadsOfLen(_)
PayloadsOfLen(n) ==
  IF n = 0 THEN {<<>>}
  ELSE {Append(b, c) : b \in PayloadsOfLen(n - 1), c \in PayloadBytes}

\* the data of the test "should decode ASCII data from hex": the length word,
\* the 138 characters of the transfer call's hex string, 22 bytes of padding
AsciiTestData ==
  hexlify(Zeros(31) \o <<138>> \o toUtf8Bytes(hexlify(TransferData)) \o Zeros(22))

\* strings that are no hex data, or too short for either operation
ShortOrInvalid ==
  { <<>>,
    <<"0", "x">>,
    <<"0", "x", "1", "2", "3", "4">>,
    <<"0", "x", "1", "2", "3", "x", "y", "z">>,
    <<"1", "2", "3", "4", "a", "b", "c", "d">>,
    <<"0", "x", "a", "9", "0", "5", "9", "c", "b">>,
    <<"0", "x", "a", "9", "0", "5", "9", "c">>,
    hexlify(Zeros(31)),
    SubSeq(hexlify(Zeros(32)), 1, 65) }

AsciiInputs ==
  {hexlify(w \o b) : w \in PrefixWords,
                     b \in UNION {PayloadsOfLen(n) : n \in 0..MaxPayload}}
    \cup {AsciiTestData} \cup ShortOrInvalid

\* the selectors of the table, the selector of the tests' unknown function
\* and transfer's selector in upper-case digits
Selectors ==
  DOMAIN knownFunctions
    \cup { <<"0", "x", "a", "b", "c", "d", "e", "f", "1", "2">>,
           <<"0", "x", "A", "9", "0", "5", "9", "C", "B", "B">> }

\* the words after a selector: an address, an amount (0x511b5ac00) and a word
\* of 0xff bytes, which is an amount but no address
ParamWords ==
  { Zeros(12) \o RecipientAddress,
    SubSeq(TransferData, 37, 68),
    [k \in 1..32 |-> 255] }

\* the most words after a selector
MaxWords == 3

RECURSIVE WordsOfLen(_)
WordsOfLen(n) ==
  IF n = 0 THEN {<<>>}
  ELSE {ws \o w : ws \in WordsOfLen(n - 1), w \in ParamWords}

\* a selector, whole words and at most one byte more
CallInputs ==
  {sel \o SubSeq(hexlify(ws \o extra), 3, 2 + 2 * (Len(ws) + Len(extra))) :
     sel \in Selectors,
     ws \in UNION {WordsOfLen(n) : n \in 0..MaxWords},
     extra \in {<<>>, <<0>>}}
    \cup {hexlify(TransferData)} \cup ShortOrInvalid

\* the length from which formatDecodedData shortens a value
DisplayLimit == 100

\* how far around the limit the lengths of the formatted values go
Margin == 4

Repeat(ch, n) == [k \in 1..n |-> ch]

\* results to format: values around the limit, the tests' values and results
\* of the decode operations
FormatInputs ==
  {[success |-> TRUE, value |-> Repeat("a", n)] :
     n \in {0, 200} \cup ((DisplayLimit - Margin)..(DisplayLimit + Margin))}
    \cup { [success |-> TRUE, value |-> <<"t", "e", "s", "t", " ", "d", "a", "t", "a">>],
           [success |-> FALSE, value |-> <<>>, error |-> <<"test error">>],
           decodeAsciiData(AsciiTestData),
           decodeAsciiData(<<"0", "x", "1", "2", "3", "4">>),
           decodeFunctionCall(hexlify(TransferData)),
           decodeFunctionCall(<<"0", "x", "a", "9", "0", "5", "9", "c", "b", "b">>) }

(***************************************************************************)
(* The state: one hasher instance of each class, the call a caller made    *)
(* on one of them and what it returned, and the decoder's last call.       *)
(***************************************************************************)
VARIABLES
  hasher,       \* class name -> the instance's fields
  constructed,  \* class name -> what its getters returned right after `new`
  pc,           \* "idle", "called" or "returned"
  call,         \* the hasher call: [inst, op, tx]
  reused,       \* the call's instance has just served a hash operation
  ret,          \* the value the call returned
  decoder,      \* the decoder call: [op, arg, result]
  locals,       \* the local constants of a running getAllHashes
  callers,      \* caller -> the call it has in flight, among several callers
  cli           \* the command line tool's run: its input, position and output

vars == <<hasher, constructed, pc, call, reused, ret, decoder, locals, callers, cli>>

Getters == {"getTypeHashes", "getDomainHash"}
HashOps ==
  {"calculateRawSafeTxHash", "calculateFinalSafeTxHash", "calculateMessageHash",
   "calculateSafeTransactionHash", "getAllHashes"}

\* a call without a transaction argument, and no returned value
None == <<>>

Init ==
  /\ hasher \in {[i \in Implementations |-> NewHasher(i, d[i])] :
                   d \in [Implementations -> Domains]}
  /\ constructed = [i \in Implementations |->
                      [typeHashes |-> getTypeHashes(hasher[i]),
                       domainHash |-> getDomainHash(hasher[i])]]
  /\ pc = "idle"
  /\ call = [inst |-> "viem", op |-> "none", tx |-> None]
  /\ reused = FALSE
  /\ ret = None
  /\ decoder = [op |-> "none", arg |-> None, result |-> None]
  /\ locals = None
  /\ callers = None
  /\ cli = None

\* a caller picks an instance, a method and its argument
Invoke(ops, txs) ==
  /\ pc # "called"
  /\ \E i \in Implementations, op \in ops :
       \E tx \in (IF op \in Getters THEN {None} ELSE txs) :
         /\ call' = [inst |-> i, op |-> op, tx |-> tx]
         /\ reused' = (pc = "returned" /\ call.op \in HashOps /\ call.inst = i)
  /\ pc' = "called"
  /\ ret' = None
  /\ UNCHANGED <<hasher, constructed, decoder, locals, callers, cli>>

Return(value) ==
  /\ ret' = value
  /\ pc' = "returned"
  /\ UNCHANGED <<hasher, constructed, call, reused, decoder, locals, callers, cli>>

GetTypeHashes ==
  /\ pc = "called" /\ call.op = "getTypeHashes"
  /\ Return(getTypeHashes(hasher[call.inst]))

GetDomainHash ==
  /\ pc = "called" /\ call.op = "getDomainHash"
  /\ Return(getDomainHash(hasher[call.inst]))

\* a variant that keeps the hash it returns in the instance's domainHash field
CalculateRawSafeTxHash_Caching ==
  /\ pc = "called" /\ call.op = "calculateRawSafeTxHash"
  /\ ret' = calculateRawSafeTxHash(hasher[call.inst], call.tx)
  /\ hasher' = [hasher EXCEPT ![call.inst].domainHash = ret']
  /\ pc' = "returned"
  /\ UNCHANGED <<constructed, call, reused, decoder, locals, callers, cli>>

CalculateRawSafeTxHash ==
  /\ pc = "called" /\ call.op = "calculateRawSafeTxHash"
  /\ Return(calculateRawSafeTxHash(hasher[call.inst], call.tx))

CalculateFinalSafeTxHash ==
  /\ pc = "called" /\ call.op = "calculateFinalSafeTxHash"
  /\ Return(calculateFinalSafeTxHash(hasher[call.inst], call.tx))

CalculateMessageHash ==
  /\ pc = "called" /\ call.op = "calculateMessageHash"
  /\ Return(calculateMessageHash(hasher[call.inst], call.tx))

CalculateSafeTransactionHash ==
  /\ pc = "called" /\ call.op = "calculateSafeTransactionHash"
  /\ Return(calculateSafeTransactionHash(hasher[call.inst], call.tx))

\* a variant that overwrites the instance's SAFE_TX_TYPEHASH field with the
\* message hash
GetAllHashes_Overwriting ==
  /\ pc = "called" /\ call.op = "getAllHashes"
  /\ ret' = getAllHashes(hasher[call.inst], call.tx)
  /\ hasher' = [hasher EXCEPT ![call.inst].SAFE_TX_TYPEHASH = ret'.messageHash]
  /\ pc' = "returned"
  /\ UNCHANGED <<constructed, call, reused, decoder, locals, callers, cli>>

GetAllHashes ==
  /\ pc = "called" /\ call.op = "getAllHashes"
  /\ Return(getAllHashes(hasher[call.inst], call.tx))

Next ==
  \/ Invoke(Getters \cup HashOps, Txs)
  \/ GetTypeHashes
  \/ GetDomainHash
  \/ CalculateRawSafeTxHash
  \/ CalculateFinalSafeTxHash
  \/ CalculateMessageHash
  \/ CalculateSafeTransactionHash
  \/ GetAllHashes

Spec == Init /\ [][Next]_vars

(***************************************************************************)
(* The two hashes of transactions that differ in one field, on the         *)
(* hashers of the test suite.                                              *)
(***************************************************************************)
FieldInit ==
  /\ hasher = [i \in Implementations |-> NewHasher(i, TestDomain)]
  /\ constructed = [i \in Implementations |->
                      [typeHashes |-> getTypeHashes(hasher[i]),
                       domainHash |-> getDomainHash(hasher[i])]]
  /\ pc = "idle"
  /\ call = [inst |-> "viem", op |-> "none", tx |-> None]
  /\ reused = FALSE
  /\ ret = None
  /\ decoder = [op |-> "none", arg |-> None, result |-> None]
  /\ locals = None
  /\ callers = None
  /\ cli = None

FieldNext ==
  \/ Invoke({"calculateRawSafeTxHash", "calculateFinalSafeTxHash"}, FieldTxs)
  \/ CalculateRawSafeTxHash
  \/ CalculateFinalSafeTxHash

FieldSpec == FieldInit /\ [][FieldNext]_vars

(***************************************************************************)
(* The decoder on its own: every call is made on a fresh argument.         *)
(***************************************************************************)
ValidateHexData ==
  /\ \E s \in DecoderInputs :
       decoder' = [op |-> "validateHexData", arg |-> s, result |-> validateHexData(s)]
  /\ UNCHANGED <<hasher, constructed, pc, call, reused, ret, locals, callers, cli>>

DecoderInit == FieldInit

DecoderNext == ValidateHexData

DecoderSpec == DecoderInit /\ [][DecoderNext]_vars

(***************************************************************************)
(* The decoder's four operations.  A caller passes an argument to an       *)
(* operation, reads the result and lets go of it before the next call.     *)
(***************************************************************************)
NoDecoderCall == [op |-> "none", arg |-> None, result |-> None]

DecoderCall(op, inputs) ==
  /\ pc = "idle" /\ decoder = NoDecoderCall
  /\ \E arg \in inputs : decoder' = [op |-> op, arg |-> arg, result |-> None]
  /\ pc' = "called"
  /\ UNCHANGED <<hasher, constructed, call, reused, ret, locals, callers, cli>>

DecoderReturn(result) ==
  /\ decoder' = [decoder EXCEPT !.result = result]
  /\ pc' = "returned"
  /\ UNCHANGED <<hasher, constructed, call, reused, ret, locals, callers, cli>>

DecodeAsciiData ==
  /\ pc = "called" /\ decoder.op = "decodeAsciiData"
  /\ DecoderReturn(decodeAsciiData(decoder.arg))

DecodeFunctionCall ==
  /\ pc = "called" /\ decoder.op = "decodeFunctionCall"
  /\ DecoderReturn(decodeFunctionCall(decoder.arg))

FormatDecodedData ==
  /\ pc = "called" /\ decoder.op = "formatDecodedData"
  /\ DecoderReturn(formatDecodedData(decoder.arg))

DecoderDone ==
  /\ pc # "called" /\ decoder # NoDecoderCall
  /\ decoder' = NoDecoderCall
  /\ pc' = "idle"
  /\ UNCHANGED <<hasher, constructed, call, reused, ret, locals, callers, cli>>

DecodeNext ==
  \/ DecoderCall("decodeAsciiData", AsciiInputs)
  \/ DecoderCall("decodeFunctionCall", CallInputs)
  \/ DecoderCall("formatDecodedData", FormatInputs)
  \/ DecodeAsciiData
  \/ DecodeFunctionCall
  \/ FormatDecodedData
  \/ (pc = "idle" /\ decoder = NoDecoderCall /\ ValidateHexData)
  \/ DecoderDone

DecodeSpec == DecoderInit /\ [][DecodeNext]_vars

(***************************************************************************)
(* Several callers at once: each has a call in flight on one of the two    *)
(* hashers or on the decoder, and the calls run in any order.              *)
(***************************************************************************)
Callers == {"first", "second"}

\* a hasher of each class, of different domains
ParallelHashers ==
  [i \in Implementations |-> NewHasher(i, IF i = "viem" THEN TestDomain ELSE DefaultDomain)]

\* the calls a caller makes: on a hasher, or on the decoder
ParallelCalls ==
  { [target |-> "viem", op |-> "calculateRawSafeTxHash", arg |-> TestTx],
    [target |-> "ethers", op |-> "calculateFinalSafeTxHash", arg |-> DelegateTx],
    [target |-> "viem", op |-> "getDomainHash", arg |-> None],
    [target |-> "ethers", op |-> "getDomainHash", arg |-> None],
    [target |-> "ethers", op |-> "getTypeHashes", arg |-> None],
    [target |-> "decoder", op |-> "decodeFunctionCall", arg |-> hexlify(TransferData)],
    [target |-> "decoder", op |-> "decodeAsciiData", arg |-> AsciiTestData],
    [target |-> "decoder", op |-> "validateHexData",
     arg |-> <<"0", "x", "1", "2", "3">>] }

NoCall == [target |-> "none", op |-> "none", arg |-> None]

\* what a call returns on the hashers hs
Perform(hs, c) ==
  CASE c.op = "getTypeHashes" -> getTypeHashes(hs[c.target])
    [] c.op = "getDomainHash" -> getDomainHash(hs[c.target])
    [] c.op = "calculateRawSafeTxHash" -> calculateRawSafeTxHash(hs[c.target], c.arg)
    [] c.op = "calculateFinalSafeTxHash" -> calculateFinalSafeTxHash(hs[c.target], c.arg)
    [] c.op = "validateHexData" -> validateHexData(c.arg)
    [] c.op = "decodeAsciiData" -> decodeAsciiData(c.arg)
    [] c.op = "decodeFunctionCall" -> decodeFunctionCall(c.arg)

ParallelInit ==
  /\ hasher = ParallelHashers
  /\ constructed = [i \in Implementations |->
                      [typeHashes |-> getTypeHashes(hasher[i]),
                       domainHash |-> getDomainHash(hasher[i])]]
  /\ pc = "idle"
  /\ call = [inst |-> "viem", op |-> "none", tx |-> None]
  /\ reused = FALSE
  /\ ret = None
  /\ decoder = NoDecoderCall
  /\ locals = None
  /\ callers = [c \in Callers |-> [pc |-> "idle", call |-> NoCall, ret |-> None]]
  /\ cli = None

Begin(c) ==
  /\ callers[c].pc = "idle"
  /\ \E new \in ParallelCalls :
       callers' = [callers EXCEPT ![c] = [pc |-> "called", call |-> new, ret |-> None]]
  /\ UNCHANGED <<hasher, constructed, pc, call, reused, ret, decoder, locals, cli>>

\* a variant whose hash operations keep the domain hash they read in a place
\* all instances share
Run_SharedDomainHash(c) ==
  /\ callers[c].pc = "called"
  /\ callers' = [callers EXCEPT ![c].pc = "returned",
                                ![c].ret = Perform(hasher, callers[c].call)]
  /\ hasher' = IF callers[c].call.op \in HashOps
                 THEN [i \in Implementations |->
                         [hasher[i] EXCEPT !.domainHash = hasher[callers[c].call.target].domainHash]]
                 ELSE hasher
  /\ UNCHANGED <<constructed, pc, call, reused, ret, decoder, locals, cli>>

\* the call runs on the fields of its instance as they are now; no method
\* assigns to a field
Run(c) ==
  /\ callers[c].pc = "called"
  /\ callers' = [callers EXCEPT ![c].pc = "returned",
                                ![c].ret = Perform(hasher, callers[c].call)]
  /\ UNCHANGED <<hasher, constructed, pc, call, reused, ret, decoder, locals, cli>>

Finish(c) ==
  /\ callers[c].pc = "returned"
  /\ callers' = [callers EXCEPT ![c] = [pc |-> "idle", call |-> NoCall, ret |-> None]]
  /\ UNCHANGED <<hasher, constructed, pc, call, reused, ret, decoder, locals, cli>>

ParallelNext == \E c \in Callers : Begin(c) \/ Run(c) \/ Finish(c)

ParallelSpec == ParallelInit /\ [][ParallelNext]_vars

(***************************************************************************)
(* The command line tool, bin/safe-tx-hash.ts.  A JavaScript value is a    *)
(* record of its kind k and its content; a JSON text is the sequence of    *)
(* its tokens, a token being a string, a number, null or a punctuation     *)
(* mark.                                                                   *)
(***************************************************************************)
Undefined == [k |-> "undefined"]
Null == [k |-> "null"]
NaN == [k |-> "NaN"]
Str(s) == [k |-> "string", s |-> s]
Num(n) == [k |-> "number", n |-> n]
Mark(m) == [k |-> m]

\* the names of the fields of the transaction JSON, as characters
Key ==
  [to |-> <<"t", "o">>,
   value |-> <<"v", "a", "l", "u", "e">>,
   data |-> <<"d", "a", "t", "a">>,
   operation |-> <<"o", "p", "e", "r", "a", "t", "i", "o", "n">>,
   safeTxGas |-> <<"s", "a", "f", "e", "T", "x", "G", "a", "s">>,
   baseGas |-> <<"b", "a", "s", "e", "G", "a", "s">>,
   gasPrice |-> <<"g", "a", "s", "P", "r", "i", "c", "e">>,
   gasToken |-> <<"g", "a", "s", "T", "o", "k", "e", "n">>,
   refundReceiver |-> <<"r", "e", "f", "u", "n", "d", "R", "e", "c", "e", "i", "v", "e", "r">>,
   nonce |-> <<"n", "o", "n", "c", "e">>]

\* JSON.parse of a scalar or of an object of scalars: the value, or the
\* SyntaxError of a text that is no JSON
JSON_parse(text) ==
  LET scalar(t) == t.k \in {"string", "number", "null"}
      inner == SubSeq(text, 2, Len(text) - 1)
      wellFormed ==
        /\ Len(inner) = 0 \/ Len(inner) % 4 = 3
        /\ \A j \in 1..Len(inner) :
             CASE j % 4 = 1 -> inner[j].k = "string"
               [] j % 4 = 2 -> inner[j].k = ":"
               [] j % 4 = 3 -> scalar(inner[j])
               [] j % 4 = 0 -> inner[j].k = ","
  IN  IF Len(text) = 1 /\ scalar(text[1])
        THEN [ok |-> TRUE, value |-> text[1]]
      ELSE IF Len(text) >= 2 /\ text[1].k = "{" /\ text[Len(text)].k = "}" /\ wellFormed
        THEN [ok |-> TRUE,
              value |-> [k |-> "object",
                         members |-> [j \in 1..((Len(inner) + 1) \div 4) |->
                                        [key |-> inner[4 * j - 3].s, value |-> inner[4 * j - 1]]]]]
      ELSE [ok |-> FALSE, message |-> "Unexpected token in JSON"]

\* data[field]: the value of the last member of that name, undefined without
\* one, and a TypeError when data is null
Get(data, field) ==
  IF data.k = "null"
    THEN [ok |-> FALSE, message |-> "Cannot read properties of null"]
  ELSE IF data.k # "object"
    THEN [ok |-> TRUE, value |-> Undefined]
  ELSE
    LET at == {j \in 1..Len(data.members) : data.members[j].key = field}
    IN  [ok |-> TRUE,
         value |-> IF at = {} THEN Undefined
                   ELSE data.members[CHOOSE j \in at : \A i \in at : i <= j].value]

\* x || y
\* x ?? y, which replaces only undefined and null
OrElse_Nullish(x, y) ==
  IF x.k \in {"undefined", "null"} THEN y ELSE x

OrElse(x, y) ==
  IF \/ x.k \in {"undefined", "null", "NaN"}
     \/ (x.k = "number" /\ x.n = 0)
     \/ (x.k = "string" /\ x.s = <<>>)
    THEN y ELSE x

IsDecimal(s) ==
  Len(s) >= 1 /\ \A j \in 1..Len(s) : s[j] \in {"0", "1", "2", "3", "4", "5", "6", "7", "8", "9"}

RECURSIVE DecimalValue(_)
DecimalValue(s) ==
  IF s = <<>> THEN 0
  ELSE 10 * DecimalValue(SubSeq(s, 1, Len(s) - 1)) + HexValue(s[Len(s)])

\* the number a string of decimal digits, with or without a sign, stands for;
\* other spellings of numbers are not among the inputs
SignedDecimal(s) ==
  IF IsDecimal(s) THEN [ok |-> TRUE, value |-> DecimalValue(s)]
  ELSE IF Len(s) >= 2 /\ s[1] = "-" /\ IsDecimal(Tail(s))
    THEN [ok |-> TRUE, value |-> 0 - DecimalValue(Tail(s))]
  ELSE [ok |-> FALSE]

\* Number(x)
Number(x) ==
  CASE x.k = "number" -> x
    [] x.k = "null" -> Num(0)
    [] x.k = "string" ->
         IF x.s = <<>> THEN Num(0)
         ELSE IF SignedDecimal(x.s).ok THEN Num(SignedDecimal(x.s).value)
         ELSE NaN
    [] OTHER -> NaN

\* BigInt(x) of a number or a string: the integer, or the error thrown
JsBigInt(x) ==
  CASE x.k = "number" -> [ok |-> TRUE, value |-> x.n]
    [] x.k = "string" ->
         IF x.s = <<>> THEN [ok |-> TRUE, value |-> 0]
         ELSE IF SignedDecimal(x.s).ok THEN [ok |-> TRUE, value |-> SignedDecimal(x.s).value]
         ELSE [ok |-> FALSE, message |-> "Cannot convert string to a BigInt"]
    [] x.k = "NaN" -> [ok |-> FALSE, message |-> "The number NaN cannot be converted to a BigInt"]
    [] OTHER -> [ok |-> FALSE, message |-> "Cannot convert value to a BigInt"]

requiredFields == <<"to", "data", "operation", "nonce">>

\* parseTransactionData: the record, or the message of the error caught
parseTransactionData(jsonData) ==
  LET parsed == JSON_parse(jsonData)
      data == parsed.value
      field(name) == Get(data, Key[name]).value
      missing == {j \in 1..Len(requiredFields) : field(requiredFields[j]) = Undefined}
      value == JsBigInt(OrElse(field("value"), Num(0)))
      safeTxGas == JsBigInt(OrElse(field("safeTxGas"), Num(0)))
      baseGas == JsBigInt(OrElse(field("baseGas"), Num(0)))
      gasPrice == JsBigInt(OrElse(field("gasPrice"), Num(0)))
  IN  IF ~parsed.ok THEN [ok |-> FALSE, message |-> parsed.message]
      ELSE IF ~Get(data, Key.to).ok THEN [ok |-> FALSE, message |-> Get(data, Key.to).message]
      ELSE IF missing # {}
        THEN [ok |-> FALSE,
              message |-> "Missing required field",
              field |-> requiredFields[CHOOSE j \in missing : \A i \in missing : j <= i]]
      ELSE IF ~value.ok THEN [ok |-> FALSE, message |-> value.message]
      ELSE IF ~safeTxGas.ok THEN [ok |-> FALSE, message |-> safeTxGas.message]
      ELSE IF ~baseGas.ok THEN [ok |-> FALSE, message |-> baseGas.message]
      ELSE IF ~gasPrice.ok THEN [ok |-> FALSE, message |-> gasPrice.message]
      ELSE [ok |-> TRUE,
            tx |-> [to |-> field("to"),
                    value |-> value.value,
                    data |-> field("data"),
                    operation |-> Number(field("operation")),
                    safeTxGas |-> safeTxGas.value,
                    baseGas |-> baseGas.value,
                    gasPrice |-> gasPrice.value,
                    gasToken |-> OrElse(field("gasToken"), Str(hexlify(zeroAddress))),
                    refundReceiver |-> OrElse(field("refundReceiver"), Str(hexlify(zeroAddress))),
                    nonce |-> Number(field("nonce"))]]

\* the JSON text of an object with the members ms, [key, value] each
JsonText(ms) ==
  <<Mark("{")>> \o
  [j \in 1..(4 * Len(ms) - 1) |->
     CASE j % 4 = 1 -> Str(Key[ms[(j + 3) \div 4].key])
       [] j % 4 = 2 -> Mark(":")
       [] j % 4 = 3 -> ms[(j + 1) \div 4].value
       [] j % 4 = 0 -> Mark(",")] \o
  <<Mark("}")>>

\* the members ms with the member key set to value, or without it
With(ms, key, value) ==
  IF \E j \in 1..Len(ms) : ms[j].key = key
    THEN [j \in 1..Len(ms) |-> IF ms[j].key = key THEN [key |-> key, value |-> value] ELSE ms[j]]
    ELSE Append(ms, [key |-> key, value |-> value])

Without(ms, key) == SelectSeq(ms, LAMBDA m : m.key # key)

\* the transaction of the README's usage line: the required fields and value
UsageMembers ==
  << [key |-> "to", value |-> Str(hexlify(RecipientAddress))],
     [key |-> "value", value |-> Str(<<"0">>)],
     [key |-> "data", value |-> Str(hexlify(TransferData))],
     [key |-> "operation", value |-> Num(0)],
     [key |-> "nonce", value |-> Num(60)] >>

\* every field of the README's format, none of them at its default
FullMembers ==
  << [key |-> "to", value |-> Str(hexlify(SafeAddress))],
     [key |-> "value", value |-> Str(<<"1", "0", "0", "0">>)],
     [key |-> "data", value |-> Str(<<"0", "x">>)],
     [key |-> "operation", value |-> Num(1)],
     [key |-> "safeTxGas", value |-> Str(<<"2", "1", "0", "0", "0">>)],
     [key |-> "baseGas", value |-> Num(256)],
     [key |-> "gasPrice", value |-> Str(<<"7">>)],
     [key |-> "gasToken", value |-> Str(hexlify(TokenAddress))],
     [key |-> "refundReceiver", value |-> Str(hexlify(RecipientAddress))],
     [key |-> "nonce", value |-> Num(1)] >>

\* texts that are no JSON, and JSON that is no object
BrokenTexts ==
  { <<>>,
    SubSeq(JsonText(UsageMembers), 1, 4 * Len(UsageMembers)),
    SubSeq(JsonText(UsageMembers), 1, 4 * Len(UsageMembers) - 1) \o <<Mark(","), Mark("}")>>,
    <<Mark("{"), Str(Key.to), Str(hexlify(RecipientAddress)), Mark("}")>>,
    <<Null>>,
    <<Num(5)>>,
    <<Mark("{"), Mark("}")>> }

\* the values tried for one field of the usage line's transaction
FieldValues ==
  [operation |-> {Num(1), Num(2), Num(255), Str(<<"1">>), Str(<<"2">>), Null},
   nonce |-> {Num(0), Str(<<"6", "0">>), Str(<<"a", "b", "c">>), Null},
   value |-> {Num(0), Num(5), Str(<<>>), Str(<<"1", "0", "0", "0">>), Str(<<"a", "b", "c">>), Null},
   safeTxGas |-> {Num(0), Str(<<"2", "1", "0", "0", "0">>), Str(<<"1", "x">>)},
   baseGas |-> {Str(<<"0">>), Num(256)},
   gasPrice |-> {Str(<<"0">>), Str(<<"7">>)},
   gasToken |-> {Str(<<>>), Null, Str(hexlify(TokenAddress))},
   refundReceiver |-> {Str(<<>>), Str(hexlify(RecipientAddress))}]

JsonTexts ==
  {JsonText(UsageMembers), JsonText(FullMembers)}
    \cup {JsonText(Without(UsageMembers, f)) : f \in {"to", "value", "data", "operation", "nonce"}}
    \cup {JsonText(Without(FullMembers, f)) : f \in DOMAIN FieldValues}
    \cup UNION {{JsonText(With(UsageMembers, f, v)) : v \in FieldValues[f]} :
                  f \in DOMAIN FieldValues}
    \cup BrokenTexts

\* the command lines: --json with each text and the default options, the
\* README's usage with --file, --chain-id and --safe-address, a chain id that
\* is no number, a file that cannot be read, and neither --file nor --json
CommandLines ==
  {[source |-> "json", text |-> t, chainId |-> <<"1">>, safeAddress |-> <<>>] : t \in JsonTexts}
    \cup {[source |-> s, text |-> JsonText(ms), chainId |-> <<"5", "9", "1", "4", "4">>,
           safeAddress |-> hexlify(SafeAddress)] :
            s \in {"json", "file"}, ms \in {UsageMembers, FullMembers}}
    \cup {[source |-> "json", text |-> JsonText(UsageMembers),
           chainId |-> <<"a", "b", "c">>, safeAddress |-> <<>>]}
    \cup {[source |-> s, text |-> <<>>, chainId |-> <<"1">>, safeAddress |-> <<>>] :
            s \in {"unreadable", "none"}}

CliInit ==
  /\ hasher = None
  /\ constructed = None
  /\ pc = "idle"
  /\ call = [inst |-> "viem", op |-> "none", tx |-> None]
  /\ reused = FALSE
  /\ ret = None
  /\ decoder = NoDecoderCall
  /\ locals = None
  /\ callers = None
  /\ cli \in {[pc |-> "start", options |-> o, tx |-> None, domainData |-> None,
               hashes |-> None, out |-> <<>>,
               err |-> <<"WARNING: This tool only supports Gnosis Safe version 1.3.0">>,
               exitCode |-> "none"] : o \in CommandLines}

CliStep(next) ==
  /\ cli' = next
  /\ UNCHANGED <<hasher, constructed, pc, call, reused, ret, decoder, locals, callers>>

\* process.exit(code) after console.error(message), or the end of the process
\* on an error nobody catches
Exit(message, code) ==
  [cli EXCEPT !.pc = "exit", !.err = Append(cli.err, message), !.exitCode = code]

\* lines 41-45; program.help() ends the process itself, with commander's code
CheckOptions ==
  /\ cli.pc = "start"
  /\ IF cli.options.source = "none"
       THEN \E code \in {"0", "1"} :
              CliStep(Exit("Error: Either --file or --json option is required", code))
       ELSE CliStep([cli EXCEPT !.pc = "read"])

\* a variant that reports the error of parseTransactionData and goes on with
\* an empty transaction
ReadTransactionData_GoesOn ==
  /\ cli.pc = "read"
  /\ LET parsed == parseTransactionData(cli.options.text)
     IN  IF cli.options.source = "unreadable"
           THEN CliStep(Exit("Error reading file", "1"))
         ELSE IF ~parsed.ok
           THEN CliStep([cli EXCEPT !.pc = "parsed",
                                    !.err = Append(cli.err, "Error parsing transaction data"),
                                    !.tx = parseTransactionData(JsonText(UsageMembers)).tx])
         ELSE CliStep([cli EXCEPT !.pc = "parsed", !.tx = parsed.tx])

\* lines 86-102: the text of the file or of --json goes to
\* parseTransactionData, which ends the process on an error


ReadTransactionData ==
  /\ cli.pc = "read"
  /\ LET parsed == parseTransactionData(cli.options.text)
     IN  IF cli.options.source = "unreadable"
           THEN CliStep(Exit("Error reading file", "1"))
         ELSE IF ~parsed.ok
           THEN CliStep(Exit("Error parsing transaction data", "1"))
         ELSE CliStep([cli EXCEPT !.pc = "parsed", !.tx = parsed.tx])

\* lines 104-113
CreateDomainData ==
  /\ cli.pc = "parsed"
  /\ CliStep([cli EXCEPT
       !.pc = "domain",
       !.err = IF cli.options.safeAddress = <<>>
                 THEN Append(cli.err, "Warning: No Safe address provided. Using default domain data.")
                 ELSE cli.err,
       !.domainData = [chainId |-> Number(Str(cli.options.chainId)),
                       verifyingContract |-> OrElse(Str(cli.options.safeAddress),
                                                    Str(hexlify(zeroAddress)))]])

\* line 116; the constructor's BigInt(chainId) throws on a chain id that is
\* no number
ConstructHasher ==
  /\ cli.pc = "domain"
  /\ IF cli.domainData.chainId.k = "NaN"
       THEN /\ cli' = Exit("Uncaught RangeError", "1")
            /\ UNCHANGED hasher
       ELSE /\ cli' = [cli EXCEPT !.pc = "constructed"]
            /\ hasher' = [viem |-> ViemSafeTransactionHasher(
                            [chainId |-> cli.domainData.chainId.n,
                             verifyingContract |-> hexToBytes(cli.domainData.verifyingContract.s)])]
  /\ UNCHANGED <<constructed, pc, call, reused, ret, decoder, locals, callers>>

\* the record getAllHashes works on: addresses and data as bytes
HasherTx(tx) ==
  [to |-> hexToBytes(tx.to.s), value |-> tx.value, data |-> hexToBytes(tx.data.s),
   operation |-> tx.operation.n, safeTxGas |-> tx.safeTxGas, baseGas |-> tx.baseGas,
   gasPrice |-> tx.gasPrice, gasToken |-> hexToBytes(tx.gasToken.s),
   refundReceiver |-> hexToBytes(tx.refundReceiver.s), nonce |-> tx.nonce.n]

\* line 117; BigInt(nonce) throws on a nonce that is no number
GenerateHashes ==
  /\ cli.pc = "constructed"
  /\ IF cli.tx.nonce.k = "NaN"
       THEN CliStep(Exit("Uncaught RangeError", "1"))
       ELSE CliStep([cli EXCEPT !.pc = "hashed",
                                !.hashes = getAllHashes(hasher.viem, HasherTx(cli.tx))])

\* lines 119-140
DisplayResults ==
  /\ cli.pc = "hashed"
  /\ CliStep([cli EXCEPT
       !.pc = "done",
       !.exitCode = "0",
       !.out = <<"=== Safe Transaction Hashes ===", "Chain ID", "Safe Address",
                 "Transaction Details", "To", "Value", "Data", "Operation", "Nonce",
                 "Generated Hashes (verify these on your hardware wallet)",
                 "Domain Hash", "Message Hash", "Safe Tx Hash">>])

CliNext ==
  \/ CheckOptions
  \/ ReadTransactionData
  \/ CreateDomainData
  \/ ConstructHasher
  \/ GenerateHashes
  \/ DisplayResults

CliSpec == CliInit /\ [][CliNext]_vars

(***************************************************************************)
(* getAllHashes, one statement at a time.                                  *)
(***************************************************************************)
\* the argument of the keccak256 in calculateRawSafeTxHash
Viem_encodedData(this, tx) ==
  AbiEncode(
    << "bytes32", "address", "uint256", "bytes32", "uint8", "uint256",
       "uint256", "uint256", "address", "address", "uint256" >>,
    << this.SAFE_TX_TYPEHASH, tx.to, tx.value, keccak256(tx.data), tx.operation,
       tx.safeTxGas, tx.baseGas, tx.gasPrice, tx.gasToken,
       tx.refundReceiver, BigInt(tx.nonce) >>)

Ethers_encodedData(this, tx) ==
  AbiEncode(
    << "bytes32", "address", "uint256", "bytes32", "uint8", "uint256",
       "uint256", "uint256", "address", "address", "uint256" >>,
    << this.SAFE_TX_TYPEHASH, tx.to, tx.value, keccak256(tx.data), tx.operation,
       tx.safeTxGas, tx.baseGas, tx.gasPrice, tx.gasToken,
       tx.refundReceiver, tx.nonce >>)

encodedData(h, tx) ==
  IF h.impl = "viem" THEN Viem_encodedData(h, tx) ELSE Ethers_encodedData(h, tx)

StepTxs == {TestTx, ExampleTx, DelegateTx}

\* the locals of getAllHashes and of the calculateRawSafeTxHash it calls,
\* empty until assigned, and what the caller then gets of the other methods
NoLocals ==
  [encodedData |-> <<>>, messageHash |-> <<>>, safeTxHash |-> <<>>,
   direct |-> [raw |-> <<>>, final |-> <<>>, message |-> <<>>,
               safeTransaction |-> <<>>, domainHash |-> <<>>]]

StepInit ==
  /\ hasher \in {[i \in Implementations |-> NewHasher(i, d[i])] :
                   d \in [Implementations -> Domains]}
  /\ constructed = None
  /\ pc = "idle"
  /\ call = [inst |-> "viem", op |-> "none", tx |-> None]
  /\ reused = FALSE
  /\ ret = None
  /\ decoder = NoDecoderCall
  /\ locals = NoLocals
  /\ callers = None
  /\ cli = None

CallGetAllHashes ==
  /\ pc = "idle"
  /\ \E i \in Implementations, tx \in StepTxs :
       call' = [inst |-> i, op |-> "getAllHashes", tx |-> tx]
  /\ pc' = "called"
  /\ UNCHANGED <<hasher, constructed, reused, ret, decoder, locals, callers, cli>>

\* calculateRawSafeTxHash, entered from getAllHashes: the encoding
EncodeSafeTx ==
  /\ pc = "called"
  /\ locals' = [locals EXCEPT !.encodedData = encodedData(hasher[call.inst], call.tx)]
  /\ pc' = "encoded"
  /\ UNCHANGED <<hasher, constructed, call, reused, ret, decoder, callers, cli>>

\* calculateRawSafeTxHash returns the hash, which getAllHashes keeps
AssignMessageHash ==
  /\ pc = "encoded"
  /\ locals' = [locals EXCEPT !.messageHash = keccak256(locals.encodedData)]
  /\ pc' = "raw"
  /\ UNCHANGED <<hasher, constructed, call, reused, ret, decoder, callers, cli>>

AssignSafeTxHash ==
  /\ pc = "raw"
  /\ locals' = [locals EXCEPT
                  !.safeTxHash = calculateFinalSafeTxHash(hasher[call.inst], call.tx)]
  /\ pc' = "final"
  /\ UNCHANGED <<hasher, constructed, call, reused, ret, decoder, callers, cli>>

\* a variant that returns the two hashes under each other's name
ReturnAllHashes_Swapped ==
  /\ pc = "final"
  /\ ret' = [safeTxHash |-> locals.messageHash,
             domainHash |-> hasher[call.inst].domainHash,
             messageHash |-> locals.safeTxHash]
  /\ pc' = "returned"
  /\ UNCHANGED <<hasher, constructed, call, reused, decoder, locals, callers, cli>>

ReturnAllHashes ==
  /\ pc = "final"
  /\ ret' = [safeTxHash |-> locals.safeTxHash,
             domainHash |-> hasher[call.inst].domainHash,
             messageHash |-> locals.messageHash]
  /\ pc' = "returned"
  /\ UNCHANGED <<hasher, constructed, call, reused, decoder, locals, callers, cli>>

\* the caller asks the same instance for each hash by its own method
CallEachMethod ==
  /\ pc = "returned"
  /\ locals' = [locals EXCEPT
       !.direct = [raw |-> calculateRawSafeTxHash(hasher[call.inst], call.tx),
                   final |-> calculateFinalSafeTxHash(hasher[call.inst], call.tx),
                   message |-> calculateMessageHash(hasher[call.inst], call.tx),
                   safeTransaction |-> calculateSafeTransactionHash(hasher[call.inst], call.tx),
                   domainHash |-> getDomainHash(hasher[call.inst])]]
  /\ pc' = "compared"
  /\ UNCHANGED <<hasher, constructed, call, reused, ret, decoder, callers, cli>>

StepNext ==
  \/ CallGetAllHashes
  \/ EncodeSafeTx
  \/ AssignMessageHash
  \/ AssignSafeTxHash
  \/ ReturnAllHashes
  \/ CallEachMethod

StepSpec == StepInit /\ [][StepNext]_vars

(***************************************************************************)
(* Properties.  A 32-byte word is written out here without the model's     *)
(* encoder: bytes padded on the left, an integer by its base-256 digits.   *)
(***************************************************************************)
LeftPad32(bytes) == Zeros(32 - Len(bytes)) \o bytes

RECURSIVE Digits256(_)
Digits256(n) == IF n = 0 THEN <<>> ELSE Digits256(n \div 256) \o <<n % 256>>

Uint256Word(n) == LeftPad32(Digits256(n))

\* C1: on every instance, of either class, calculateFinalSafeTxHash(tx) is
\* keccak256 of the 66 bytes 0x19, 0x01, getDomainHash() and
\* calculateRawSafeTxHash(tx), in this order and without length prefixes.
C1_FinalHashIsKeccakOfPrefixDomainRaw ==
  (pc = "returned" /\ call.op = "calculateFinalSafeTxHash") =>
    LET h == hasher[call.inst]
        preimage == <<25, 1>> \o getDomainHash(h) \o calculateRawSafeTxHash(h, call.tx)
    IN  /\ Len(preimage) = 66
        /\ ret = keccak256(preimage)

C1_Witness ==
  /\ pc = "returned"
  /\ call.op = "calculateFinalSafeTxHash"
  /\ call.inst = "viem"
  /\ call.tx = DelegateTx
  /\ Len(ret) = 32

\* the eleven words of a transaction, in the order of the SafeTx struct
SafeTxWords(tx) ==
  << expectedTypeHashes.safeTxTypeHash,
     LeftPad32(tx.to),
     Uint256Word(tx.value),
     keccak256(tx.data),
     Uint256Word(tx.operation),
     Uint256Word(tx.safeTxGas),
     Uint256Word(tx.baseGas),
     Uint256Word(tx.gasPrice),
     LeftPad32(tx.gasToken),
     LeftPad32(tx.refundReceiver),
     Uint256Word(tx.nonce) >>

\* C2: calculateRawSafeTxHash(tx) is keccak256 of eleven 32-byte words (352
\* bytes): SAFE_TX_TYPEHASH, to, value, keccak256(data), operation, safeTxGas,
\* baseGas, gasPrice, gasToken, refundReceiver, nonce; the data enters only
\* through its digest, an address is left-padded with zeros and an integer is
\* a big-endian 256-bit word.
C2_RawHashIsKeccakOfElevenWords ==
  (pc = "returned" /\ call.op = "calculateRawSafeTxHash") =>
    LET words == SafeTxWords(call.tx)
        encoded == concat(words)
    IN  /\ Len(words) = 11
        /\ \A k \in 1..11 : Len(words[k]) = 32
        /\ Len(encoded) = 352
        /\ ret = keccak256(encoded)

C2_Witness ==
  /\ pc = "returned"
  /\ call.op = "calculateRawSafeTxHash"
  /\ call.tx = DelegateTx
  /\ call.tx.gasToken # zeroAddress
  /\ call.tx.data = <<>>
  /\ Len(ret) = 32

\* the three words of a domain record, in the order of the EIP712Domain struct
DomainWords(d) ==
  << expectedTypeHashes.domainSeparatorTypeHash,
     Uint256Word(d.chainId),
     LeftPad32(d.verifyingContract) >>

\* C3: the domain hash of a hasher constructed from d is keccak256 of three
\* 32-byte words (96 bytes): DOMAIN_SEPARATOR_TYPEHASH, chainId as a
\* big-endian 256-bit word, verifyingContract left-padded to 32 bytes.
C3_DomainHashIsKeccakOfThreeWords ==
  (pc = "returned" /\ call.op = "getDomainHash") =>
    LET words == DomainWords(hasher[call.inst].domain)
        encoded == concat(words)
    IN  /\ \A k \in 1..3 : Len(words[k]) = 32
        /\ Len(encoded) = 96
        /\ ret = keccak256(encoded)
        /\ hasher[call.inst].domainHash = ret

C3_Witness ==
  /\ pc = "returned"
  /\ call.op = "getDomainHash"
  /\ call.inst = "ethers"
  /\ hasher["ethers"].domain = TestDomain
  /\ ret = expectedHashes.domainHash

\* C4: for the test suite's domain and transaction getAllHashes returns the
\* domain hash 0x7ae3..6dfd, the message hash 0xd7a2..494a and the Safe
\* transaction hash 0x64b8..6189 the test suite expects, in both classes.
C4_GoldenVector ==
  (/\ pc = "returned"
   /\ call.op = "getAllHashes"
   /\ hasher[call.inst].domain = TestDomain
   /\ call.tx = TestTx) =>
    /\ ret.domainHash = expectedHashes.domainHash
    /\ ret.messageHash = expectedHashes.messageHash
    /\ ret.safeTxHash = expectedHashes.safeTxHash

\* what the two classes return for that domain and transaction
C4_Witness ==
  /\ pc = "returned"
  /\ call.op = "getAllHashes"
  /\ hasher[call.inst].domain = TestDomain
  /\ call.tx = TestTx
  /\ ret.domainHash = expectedHashes.domainHash
  /\ ret.messageHash =
       << 8, 222, 48, 128, 22, 192, 189, 91, 36, 98, 140, 24, 171, 157, 40, 179,
          241, 41, 169, 170, 159, 64, 144, 15, 111, 198, 34, 248, 43, 177, 148, 169 >>
  /\ ret.safeTxHash =
       << 28, 139, 185, 253, 196, 217, 87, 247, 125, 161, 123, 183, 172, 95, 66, 169,
          200, 155, 51, 76, 136, 252, 246, 25, 89, 104, 212, 169, 116, 196, 106, 132 >>

\* the result of a hash operation on a hasher
ApplyHashOp(op, h, tx) ==
  CASE op = "calculateRawSafeTxHash" -> calculateRawSafeTxHash(h, tx)
    [] op = "calculateFinalSafeTxHash" -> calculateFinalSafeTxHash(h, tx)
    [] op = "calculateMessageHash" -> calculateMessageHash(h, tx)
    [] op = "calculateSafeTransactionHash" -> calculateSafeTransactionHash(h, tx)
    [] op = "getAllHashes" -> getAllHashes(h, tx)

\* C5: calculateRawSafeTxHash(tx) and calculateFinalSafeTxHash(tx) return the
\* same 32 bytes on every call, whether or not the instance has served a hash
\* operation before, and the same as an independent instance of the class
\* constructed from the same domain record.
C5_HashingIsDeterministic ==
  (pc = "returned" /\ call.op \in {"calculateRawSafeTxHash", "calculateFinalSafeTxHash"}) =>
    LET independent == NewHasher(call.inst, hasher[call.inst].domain)
    IN  /\ Len(ret) = 32
        /\ ret = ApplyHashOp(call.op, independent, call.tx)

C5_Witness ==
  /\ pc = "returned"
  /\ call.op = "calculateFinalSafeTxHash"
  /\ reused
  /\ Len(ret) = 32

\* C6: the message hash does not depend on the domain: a hasher of the same
\* class constructed from a different domain record returns the same
\* calculateRawSafeTxHash(tx), and that is getAllHashes(tx).messageHash.
C6_MessageHashIgnoresDomain ==
  (pc = "returned" /\ call.op \in {"calculateRawSafeTxHash", "getAllHashes"}) =>
    \A d \in Domains \ {hasher[call.inst].domain} :
      LET other == NewHasher(call.inst, d)
          messageHash == IF call.op = "getAllHashes" THEN ret.messageHash ELSE ret
      IN  /\ other.domain # hasher[call.inst].domain
          /\ calculateRawSafeTxHash(other, call.tx) = messageHash

C6_Witness ==
  /\ pc = "returned"
  /\ call.op = "getAllHashes"
  /\ call.inst = "ethers"
  /\ hasher["ethers"].domain = TestDomain
  /\ DefaultDomain \in Domains
  /\ ret.domainHash # NewHasher("ethers", DefaultDomain).domainHash

\* C7: the two type hashes and the domain hash of an instance are those
\* written by its constructor in every state, whatever hash operations have
\* run: getTypeHashes(), getDomainHash() and getAllHashes(tx).domainHash return
\* the values of construction, and the type hashes are the same for every
\* domain record.
C7_HashesWrittenOnce ==
  /\ \A i \in Implementations :
       /\ getTypeHashes(hasher[i]) = constructed[i].typeHashes
       /\ getDomainHash(hasher[i]) = constructed[i].domainHash
       /\ constructed[i].typeHashes = expectedTypeHashes
  /\ (pc = "returned" /\ call.op = "getTypeHashes") =>
       ret = constructed[call.inst].typeHashes
  /\ (pc = "returned" /\ call.op = "getDomainHash") =>
       ret = constructed[call.inst].domainHash
  /\ (pc = "returned" /\ call.op = "getAllHashes") =>
       ret.domainHash = constructed[call.inst].domainHash

C7_Witness ==
  /\ pc = "returned"
  /\ call.op = "getTypeHashes"
  /\ reused
  /\ hasher["viem"].domain # hasher["ethers"].domain
  /\ ret = constructed[call.inst].typeHashes

\* two transaction records that differ in exactly one field
DiffersInOneField(a, b) == Cardinality({f \in TxFields : a[f] # b[f]}) = 1

\* C8: a transaction record that differs from tx in one field alone has
\* another calculateRawSafeTxHash and another calculateFinalSafeTxHash than tx
\* on the same hasher.
C8_SingleFieldChangesHash ==
  (pc = "returned" /\ call.op \in {"calculateRawSafeTxHash", "calculateFinalSafeTxHash"}) =>
    \A tx2 \in FieldTxs :
      DiffersInOneField(call.tx, tx2) =>
        ApplyHashOp(call.op, hasher[call.inst], tx2) # ret

C8_Witness ==
  /\ pc = "returned"
  /\ call.op = "calculateFinalSafeTxHash"
  /\ call.tx = TestTx
  /\ \A f \in TxFields :
       \E tx2 \in FieldTxs : {g \in TxFields : call.tx[g] # tx2[g]} = {f}

\* C9: a ViemSafeTransactionHasher and an EthersSafeTransactionHasher
\* constructed from the same domain record return the same getTypeHashes(),
\* getDomainHash() and getAllHashes(tx).
C9_ImplementationsAgree ==
  (pc = "returned" /\ call.op \in {"getTypeHashes", "getDomainHash", "getAllHashes"}) =>
    LET otherImpl == CHOOSE i \in Implementations : i # call.inst
        other == NewHasher(otherImpl, hasher[call.inst].domain)
    IN  ret = (CASE call.op = "getTypeHashes" -> getTypeHashes(other)
                 [] call.op = "getDomainHash" -> getDomainHash(other)
                 [] call.op = "getAllHashes" -> getAllHashes(other, call.tx))

C9_Witness ==
  /\ pc = "returned"
  /\ call.op = "getAllHashes"
  /\ call.inst = "viem"
  /\ call.tx = DelegateTx
  /\ DOMAIN ret = {"safeTxHash", "domainHash", "messageHash"}

\* "0x" followed by an even number of characters out of 0-9, a-f, A-F
IsHexChar(c) == \E v \in 1..16 : HexChars[v] = c \/ UpperHexChars[v] = c

IsEvenHexString(s) ==
  \E n \in 0..Len(s) :
    /\ Len(s) = 2 + 2 * n
    /\ SubSeq(s, 1, 2) = <<"0", "x">>
    /\ \A k \in 3..Len(s) : IsHexChar(s[k])

\* C10: validateHexData(s) returns valid = true exactly for "0x" followed by
\* an even number, zero included, of hexadecimal digits: "0x", "0x00" and
\* "0xabcdef" are valid; the empty string, a string without the prefix, one
\* with another character and one of odd length are not.
C10_ValidExactlyForEvenHexStrings ==
  (decoder.op = "validateHexData") =>
    /\ decoder.result.valid <=> IsEvenHexString(decoder.arg)
    /\ decoder.arg \in {<<"0", "x">>, <<"0", "x", "0", "0">>,
                        <<"0", "x", "a", "b", "c", "d", "e", "f">>}
         => decoder.result.valid
    /\ decoder.arg \in {<<>>, <<"1", "2", "3", "4", "a", "b", "c", "d">>,
                        <<"0", "x", "1", "2", "3", "4", "a", "b", "c", "d", "x", "y", "z">>,
                        <<"0", "x", "1", "2", "3">>}
         => ~decoder.result.valid

C10_Witness ==
  /\ decoder.op = "validateHexData"
  /\ decoder.arg = <<"0", "x", "a", "F">>
  /\ decoder.result.valid

\* the four rules of a hex string, each on its own
ViolatesRule(k, s) ==
  CASE k = 1 -> Len(s) = 0
    [] k = 2 -> ~(Len(s) >= 2 /\ s[1] = "0" /\ s[2] = "x")
    [] k = 3 -> \E i \in 3..Len(s) : ~IsHexChar(s[i])
    [] k = 4 -> Len(s) % 2 = 1

RuleReason(k) ==
  CASE k = 1 -> "Data is empty"
    [] k = 2 -> "Hex data must start with 0x"
    [] k = 3 -> "Data contains invalid hex characters"
    [] k = 4 -> "Hex data must have even length"

\* C11: validateHexData reports exactly one error, the reason of the first
\* rule violated in the order non-empty, prefix 0x, hex digits only, even
\* number of digits, also when later rules are violated too: a string with
\* a character that is no hex digit and an odd length is reported as having
\* invalid hex characters, a string without the prefix as lacking it.
C11_FirstViolatedRuleIsReported ==
  (decoder.op = "validateHexData") =>
    /\ \A k \in 1..4 :
         (ViolatesRule(k, decoder.arg) /\ \A j \in 1..(k - 1) : ~ViolatesRule(j, decoder.arg))
           => decoder.result = [valid |-> FALSE, error |-> RuleReason(k)]
    /\ (\A k \in 1..4 : ~ViolatesRule(k, decoder.arg)) => decoder.result = [valid |-> TRUE]
    /\ decoder.arg = <<"0", "x", "1", "2", "3", "x", "y", "z">>
         => decoder.result.error = "Data contains invalid hex characters"
    /\ decoder.arg = <<"1", "2", "3", "4", "a", "b", "c", "d">>
         => decoder.result.error = "Hex data must start with 0x"

\* "0xg": a character that is no hex digit and an odd number of characters
C11_Witness ==
  /\ decoder.op = "validateHexData"
  /\ decoder.arg = <<"0", "x", "g">>
  /\ ViolatesRule(3, decoder.arg) /\ ViolatesRule(4, decoder.arg)
  /\ decoder.result = [valid |-> FALSE, error |-> "Data contains invalid hex characters"]

\* a call of op has returned
Returned(op) == pc = "returned" /\ decoder.op = op

\* the bytes of valid hex data after the first n
PayloadAfter(data, n) ==
  LET bytes == hexToBytes(data) IN SubSeq(bytes, n + 1, Len(bytes))

\* bytes without the zero bytes at their end
WithoutTrailingZeros(bytes) ==
  LET last == {k \in 1..Len(bytes) : bytes[k] # 0}
  IN  SubSeq(bytes, 1, IF last = {} THEN 0 ELSE CHOOSE k \in last : \A j \in last : j <= k)

\* the codes of the ASCII white space
AsciiWhiteSpace == {9, 10, 11, 12, 13, 32}

\* ASCII text without NUL and without white space at either end
IsPlainAsciiText(t) ==
  /\ \A k \in 1..Len(t) : t[k] \in 1..127
  /\ t # <<>> => (t[1] \notin AsciiWhiteSpace /\ t[Len(t)] \notin AsciiWhiteSpace)

\* C12: for ASCII text t without NUL and without white space at its ends,
\* decodeAsciiData of the hex of a 32-byte word, the bytes of t and any number
\* of zero bytes succeeds with value t; in general the value of a success is
\* the UTF-8 decoding of the bytes after the first 32, trimmed and then rid of
\* its NUL characters.  The tests' data gives the transfer call's hex string.
C12_AsciiRoundTrip ==
  (Returned("decodeAsciiData") /\ IsEvenHexString(decoder.arg) /\ Len(decoder.arg) >= 66) =>
    LET payload == PayloadAfter(decoder.arg, 32)
        t == WithoutTrailingZeros(payload)
        text == toUtf8String(hexlify(payload))
    IN  /\ IsPlainAsciiText(t) =>
             /\ decoder.result.success
             /\ toUtf8Bytes(decoder.result.value) = t
        /\ decoder.result.success =>
             /\ text.ok
             /\ decoder.result.value = replaceNul(trim(text.value))
        /\ payload = <<0, 32, 97>> => decoder.result.value = <<" ", "a">>
        /\ payload = <<32, 0, 97>> => decoder.result.value = <<"a">>
        /\ payload = <<195, 169, 0>> => decoder.result.value = <<"U+00E9">>
        /\ decoder.arg = AsciiTestData => decoder.result.value = hexlify(TransferData)

\* the tests' data: 138 characters of text and 22 zero bytes after the word
C12_Witness ==
  /\ Returned("decodeAsciiData")
  /\ decoder.arg = AsciiTestData
  /\ Len(WithoutTrailingZeros(PayloadAfter(decoder.arg, 32))) = 138
  /\ IsPlainAsciiText(WithoutTrailingZeros(PayloadAfter(decoder.arg, 32)))
  /\ decoder.result = [success |-> TRUE, value |-> hexlify(TransferData)]

\* the number of bytes of valid hex data
ByteLength(data) == (Len(data) - 2) \div 2

\* the failure of a decode operation on data that validateHexData rejects
ValidationFailure(data) ==
  LET k == CHOOSE k \in 1..4 :
             ViolatesRule(k, data) /\ \A j \in 1..(k - 1) : ~ViolatesRule(j, data)
  IN  [success |-> FALSE, value |-> <<>>, error |-> <<RuleReason(k)>>]

\* C13: both decode operations validate first and check the length second:
\* data that validateHexData rejects gives success = false with exactly its
\* error; valid data gives the failure "Data too short..." exactly when it has
\* fewer than 32 bytes (decodeAsciiData) or fewer than 4 (decodeFunctionCall),
\* so 32 bytes decode to the empty string and 4 bytes are accepted.
C13_LengthCheckedAfterValidation ==
  /\ Returned("decodeAsciiData") =>
       IF ~IsEvenHexString(decoder.arg)
         THEN decoder.result = ValidationFailure(decoder.arg)
         ELSE /\ (decoder.result = [success |-> FALSE, value |-> <<>>,
                                    error |-> <<"Data too short, minimum 32 bytes required">>])
                   <=> ByteLength(decoder.arg) < 32
              /\ ByteLength(decoder.arg) = 32
                   => decoder.result = [success |-> TRUE, value |-> <<>>]
  /\ Returned("decodeFunctionCall") =>
       IF ~IsEvenHexString(decoder.arg)
         THEN decoder.result = ValidationFailure(decoder.arg)
         ELSE /\ (decoder.result =
                    [success |-> FALSE, value |-> <<>>,
                     error |-> <<"Data too short, minimum 4 bytes required for function selector">>])
                   <=> ByteLength(decoder.arg) < 4
              /\ ByteLength(decoder.arg) = 4 => decoder.result.success

\* "0x123xyz": shorter than a selector and no hex data
C13_Witness ==
  /\ Returned("decodeFunctionCall")
  /\ decoder.arg = <<"0", "x", "1", "2", "3", "x", "y", "z">>
  /\ Len(decoder.arg) < 10
  /\ decoder.result = [success |-> FALSE, value |-> <<>>,
                       error |-> <<"Data contains invalid hex characters">>]

\* the selector of valid data of 4 bytes or more: its first 4 bytes
SelectorBytes(data) == SubSeq(hexToBytes(data), 1, 4)

\* the table's entry of a selector, by its bytes
IsKnownSelector(sel) == \E key \in DOMAIN knownFunctions : hexToBytes(key) = sel

TableEntry(sel) ==
  knownFunctions[CHOOSE key \in DOMAIN knownFunctions : hexToBytes(key) = sel]

\* the k-th 32-byte word after the selector
ParamWord(data, k) == SubSeq(hexToBytes(data), 4 + 32 * (k - 1) + 1, 4 + 32 * k)

\* a word that stands for a value of the type: every word is a uint256, an
\* address has 12 zero bytes in front of its 20
IsWellFormedWord(type, word) ==
  type = "address" => \A k \in 1..12 : word[k] = 0

\* valid data of a table entry's selector and one well-formed word per type
IsKnownCall(data) ==
  /\ IsEvenHexString(data)
  /\ ByteLength(data) >= 4
  /\ IsKnownSelector(SelectorBytes(data))
  /\ LET types == TableEntry(SelectorBytes(data)).types
     IN  /\ ByteLength(data) = 4 + 32 * Len(types)
         /\ \A k \in 1..Len(types) : IsWellFormedWord(types[k], ParamWord(data, k))

\* the value of a parameter is the value of its word
IsValueOfWord(param, type, word) ==
  /\ param.type = type
  /\ "value" \in DOMAIN param
  /\ IF type = "address"
       THEN param.value = SubSeq(word, 13, 32)
       ELSE /\ LeftPad32(param.value) = word
            /\ param.value # <<>> => param.value[1] # 0

\* C14: for valid data of one of the four selectors of the table followed by
\* one well-formed word per parameter type, decodeFunctionCall returns
\* success = true, the table's name, the 4-byte selector as signature, no
\* error, and one parameter per type in order: an address is the low 20 bytes
\* of its word, a uint256 its big-endian value.
C14_KnownCallIsDecoded ==
  (Returned("decodeFunctionCall") /\ IsKnownCall(decoder.arg)) =>
    LET entry == TableEntry(SelectorBytes(decoder.arg))
        r == decoder.result
    IN  /\ r.success
        /\ DOMAIN r = {"success", "value", "signature", "name", "params"}
        /\ r.name = entry.name
        /\ hexToBytes(r.signature) = SelectorBytes(decoder.arg)
        /\ Len(r.params) = Len(entry.types)
        /\ \A k \in 1..Len(entry.types) :
             IsValueOfWord(r.params[k], entry.types[k], ParamWord(decoder.arg, k))

\* transfer's selector in upper-case digits, an address and an amount: the
\* call is taken for one of an unknown function
C14_Witness ==
  /\ Returned("decodeFunctionCall")
  /\ decoder.arg = <<"0", "x", "A", "9", "0", "5", "9", "C", "B", "B">>
                     \o SubSeq(hexlify(TransferData), 11, 138)
  /\ IsKnownCall(decoder.arg)
  /\ decoder.result = [success |-> TRUE,
                       value |-> <<"0", "x", "A", "9", "0", "5", "9", "C", "B", "B">>,
                       signature |-> <<"0", "x", "A", "9", "0", "5", "9", "C", "B", "B">>]

\* C15: for valid data of 4 bytes or more whose selector is not in the table,
\* decodeFunctionCall returns success = true with signature and value both
\* the selector and without name, params and error: a selector that is not
\* recognized is no failure.
C15_UnknownSelectorIsSuccess ==
  (/\ Returned("decodeFunctionCall")
   /\ IsEvenHexString(decoder.arg)
   /\ ByteLength(decoder.arg) >= 4
   /\ ~IsKnownSelector(SelectorBytes(decoder.arg))) =>
    /\ DOMAIN decoder.result = {"success", "value", "signature"}
    /\ decoder.result.success
    /\ decoder.result.signature = SubSeq(decoder.arg, 1, 10)
    /\ hexToBytes(decoder.result.signature) = SelectorBytes(decoder.arg)
    /\ decoder.result.value = decoder.result.signature

\* the tests' selector 0xabcdef12 and one word
C15_Witness ==
  /\ Returned("decodeFunctionCall")
  /\ IsEvenHexString(decoder.arg)
  /\ ByteLength(decoder.arg) = 36
  /\ SubSeq(decoder.arg, 1, 10) = <<"0", "x", "a", "b", "c", "d", "e", "f", "1", "2">>
  /\ ~IsKnownSelector(SelectorBytes(decoder.arg))
  /\ decoder.result = [success |-> TRUE,
                       value |-> <<"0", "x", "a", "b", "c", "d", "e", "f", "1", "2">>,
                       signature |-> <<"0", "x", "a", "b", "c", "d", "e", "f", "1", "2">>]

\* valid data of a table entry's selector and fewer bytes than one word per
\* parameter type
IsTruncatedKnownCall(data) ==
  /\ IsEvenHexString(data)
  /\ ByteLength(data) >= 4
  /\ IsKnownSelector(SelectorBytes(data))
  /\ ByteLength(data) < 4 + 32 * Len(TableEntry(SelectorBytes(data)).types)

\* C16: when the selector is in the table and the bytes after it are fewer
\* than one word per parameter, the bare selector included, decodeFunctionCall
\* returns success = true with the name, the signature, the name as value, an
\* error note that is not empty and no params; it never returns success =
\* false for a selector of the table.
C16_TruncatedKnownCallKeepsName ==
  (Returned("decodeFunctionCall") /\ IsTruncatedKnownCall(decoder.arg)) =>
    LET entry == TableEntry(SelectorBytes(decoder.arg))
        r == decoder.result
    IN  /\ r.success
        /\ DOMAIN r = {"success", "value", "signature", "name", "error"}
        /\ r.name = entry.name
        /\ r.value = entry.name
        /\ hexToBytes(r.signature) = SelectorBytes(decoder.arg)
        /\ r.error # <<>>

\* the bare selector of transfer in upper-case digits: neither a name nor an
\* error note
C16_Witness ==
  /\ Returned("decodeFunctionCall")
  /\ decoder.arg = <<"0", "x", "A", "9", "0", "5", "9", "C", "B", "B">>
  /\ IsTruncatedKnownCall(decoder.arg)
  /\ decoder.result = [success |-> TRUE,
                       value |-> <<"0", "x", "A", "9", "0", "5", "9", "C", "B", "B">>,
                       signature |-> <<"0", "x", "A", "9", "0", "5", "9", "C", "B", "B">>]

Ellipsis == <<".", ".", ".">>

\* C17: formatDecodedData(r) is "Decoding Error: " and r.error when r.success
\* is false; when it is true, the first 100 characters of r.value and "..."
\* if r.value has more than 100 characters, r.value itself if it has 100 or
\* fewer: a value of exactly 100 characters is not shortened.
C17_FormatByCase ==
  Returned("formatDecodedData") =>
    LET r == decoder.arg
        out == decoder.result
    IN  /\ ~r.success => out = <<"Decoding Error: ">> \o r.error
        /\ (r.success /\ Len(r.value) > DisplayLimit)
             => out = SubSeq(r.value, 1, DisplayLimit) \o Ellipsis
        /\ (r.success /\ Len(r.value) <= DisplayLimit) => out = r.value
        /\ r = [success |-> FALSE, value |-> <<>>, error |-> <<"test error">>]
             => out = <<"Decoding Error: ", "test error">>

\* a value of exactly 100 characters comes back as it is
C17_Witness ==
  /\ Returned("formatDecodedData")
  /\ decoder.arg.success
  /\ Len(decoder.arg.value) = 100
  /\ decoder.result = decoder.arg.value

ContainsEllipsis(str) ==
  \E i \in 1..(Len(str) - 2) : SubSeq(str, i, i + 2) = Ellipsis

\* C18 as stated: for every success result whose value has more than 100
\* characters, the string formatDecodedData returns is strictly shorter than
\* the value and contains "...".
C18_TruncationShortens ==
  (Returned("formatDecodedData") /\ decoder.arg.success /\ Len(decoder.arg.value) > 100) =>
    /\ Len(decoder.result) < Len(decoder.arg.value)
    /\ ContainsEllipsis(decoder.result)

\* C18, amended: for every success result whose value has more than 100
\* characters, the string formatDecodedData returns has exactly 103
\* characters and ends in "..."; it is strictly shorter than the value exactly
\* when the value has more than 103 characters, as long as the value when it
\* has 103 and longer than the value when it has 101 or 102.
C18_TruncationGives103Characters ==
  (Returned("formatDecodedData") /\ decoder.arg.success /\ Len(decoder.arg.value) > 100) =>
    /\ Len(decoder.result) = 103
    /\ SubSeq(decoder.result, 101, 103) = Ellipsis
    /\ ContainsEllipsis(decoder.result)
    /\ Len(decoder.result) < Len(decoder.arg.value) <=> Len(decoder.arg.value) > 103
    /\ Len(decoder.arg.value) \in {101, 102} => Len(decoder.result) > Len(decoder.arg.value)

\* a value of 101 characters becomes a string of 103
C18_Witness ==
  /\ Returned("formatDecodedData")
  /\ decoder.arg.success
  /\ Len(decoder.arg.value) = 101
  /\ Len(decoder.result) = 103

\* what a decode operation returns: a result object with success and value
IsDecodedResult(r) ==
  /\ {"success", "value"} \subseteq DOMAIN r
  /\ r.success \in BOOLEAN

\* a failure: success = false, the empty string as value, an error
IsFailure(r) ==
  /\ IsDecodedResult(r)
  /\ ~r.success
  /\ r.value = <<>>
  /\ "error" \in DOMAIN r
  /\ r.error # <<>>
  /\ \A k \in 1..Len(r.error) : r.error[k] # ""

\* C19: validateHexData, decodeAsciiData and decodeFunctionCall return a
\* result object for every string and throw nothing; hex data that is
\* malformed, a payload that is too short and bytes that are not UTF-8 each
\* give success = false (valid = false for validateHexData), the empty string
\* as value and an error that is not empty, the error of bytes that are not
\* UTF-8 being "Failed to decode data: " and the message of the cause.
C19_ErrorsAreValues ==
  /\ decoder.op = "validateHexData" =>
       /\ "valid" \in DOMAIN decoder.result
       /\ ~IsEvenHexString(decoder.arg) =>
            /\ ~decoder.result.valid
            /\ "error" \in DOMAIN decoder.result
            /\ decoder.result.error # ""
  /\ (Returned("decodeAsciiData") \/ Returned("decodeFunctionCall")) =>
       /\ IsDecodedResult(decoder.result)
       /\ ~IsEvenHexString(decoder.arg) => IsFailure(decoder.result)
  /\ (Returned("decodeFunctionCall") /\ IsEvenHexString(decoder.arg)
        /\ ByteLength(decoder.arg) < 4) => IsFailure(decoder.result)
  /\ (Returned("decodeAsciiData") /\ IsEvenHexString(decoder.arg)) =>
       /\ ByteLength(decoder.arg) < 32 => IsFailure(decoder.result)
       /\ ByteLength(decoder.arg) >= 32 =>
            LET payload == PayloadAfter(decoder.arg, 32)
                text == toUtf8String(hexlify(payload))
            IN  /\ ~text.ok =>
                     /\ IsFailure(decoder.result)
                     /\ decoder.result.error = <<"Failed to decode data: ">> \o text.message
                     /\ text.message # <<>>
                /\ payload \in {<<255>>, <<195>>, <<169>>, <<195, 32>>} => ~text.ok
                /\ payload = <<195, 32>> =>
                     decoder.result.error[3] = "missing continuation byte"

\* a payload of the one byte 0xff, which is no UTF-8
C19_Witness ==
  /\ Returned("decodeAsciiData")
  /\ IsEvenHexString(decoder.arg)
  /\ ByteLength(decoder.arg) = 33
  /\ PayloadAfter(decoder.arg, 32) = <<255>>
  /\ IsFailure(decoder.result)
  /\ decoder.result.error[1] = "Failed to decode data: "
  /\ Len(decoder.result.error) > 1

\* what each call returns when it runs alone, on hashers nobody else uses
AloneResult == [c \in ParallelCalls |-> Perform(ParallelHashers, c)]

\* C21: however the calls of several callers on the hashers and the decoder
\* interleave, each returns what it returns when it runs alone, and no
\* operation changes the domain hash or the type hashes of any instance; the
\* result of a decoder call depends on its argument only.
C21_NoInterference ==
  /\ \A c \in Callers :
       callers[c].pc = "returned" => callers[c].ret = AloneResult[callers[c].call]
  /\ \A i \in Implementations :
       /\ getDomainHash(hasher[i]) = constructed[i].domainHash
       /\ getTypeHashes(hasher[i]) = constructed[i].typeHashes
       /\ hasher[i] = ParallelHashers[i]

\* a hash operation on each of the two instances, in flight at the same time
\* and both returned
C21_Witness ==
  /\ callers["first"].pc = "returned"
  /\ callers["first"].call.target = "viem"
  /\ callers["first"].call.op = "calculateRawSafeTxHash"
  /\ callers["second"].pc = "returned"
  /\ callers["second"].call.target = "ethers"
  /\ callers["second"].call.op = "calculateFinalSafeTxHash"
  /\ callers["first"].ret # callers["second"].ret

(* The command line tool. *)

\* the text has a member of that name
HasMember(text, name) ==
  \E j \in 1..(Len(text) - 1) :
    /\ text[j].k = "string"
    /\ text[j].s = Key[name]
    /\ text[j + 1].k = ":"

\* the texts among the inputs that are no JSON
MalformedTexts == BrokenTexts \ {<<Null>>, <<Num(5)>>, <<Mark("{"), Mark("}")>>}

IsRejectedText(text) ==
  \/ text \in MalformedTexts
  \/ \E j \in 1..Len(requiredFields) : ~HasMember(text, requiredFields[j])

HashesPrinted ==
  \E j \in 1..Len(cli.out) :
    cli.out[j] = "Generated Hashes (verify these on your hardware wallet)"

Given(text, name) ==
  LET at == {j \in 1..(Len(text) - 1) :
               text[j].k = "string" /\ text[j].s = Key[name] /\ text[j + 1].k = ":"}
  IN  text[(CHOOSE j \in at : \A i \in at : i <= j) + 2]

NumericFields == {"value", "safeTxGas", "baseGas", "gasPrice"}
AddressFields == {"gasToken", "refundReceiver"}

\* the integer a number or a string of digits stands for
Spelled(v) == IF v.k = "number" THEN v.n ELSE DecimalValue(v.s)

IsEmptyValue(v) ==
  \/ v.k = "null"
  \/ v.k = "string" /\ v.s = <<>>
  \/ v.k = "number" /\ v.n = 0

ZeroAddressText == Str(hexlify(zeroAddress))

TransactionParsed == cli.pc \in {"parsed", "domain", "constructed", "hashed", "done"}

DomainCreated == cli.pc \in {"domain", "constructed", "hashed", "done"}

\* without --safe-address the verifying contract is the zero address, in the
\* domain data and in the hasher constructed from it
VerifyingContractDefault ==
  /\ DomainCreated =>
       cli.domainData.verifyingContract =
         IF cli.options.safeAddress = <<>> THEN ZeroAddressText
         ELSE Str(cli.options.safeAddress)
  /\ DOMAIN hasher # {} =>
       hasher.viem.domain.verifyingContract =
         IF cli.options.safeAddress = <<>> THEN zeroAddress
         ELSE hexToBytes(cli.options.safeAddress)

HashGenerationReached == cli.pc \in {"constructed", "hashed", "done"}

IsValidOperation(v) == v.k = "number" /\ v.n \in {0, 1}

IsValidNonce(v) == v.k = "number" /\ v.n >= 0

\* C28: whenever the tool reaches hash generation, the record's operation is
\* 0 or 1 and its nonce is a non-negative integer, and no hash is printed for
\* a JSON document whose operation or nonce is anything else.
C28_OnlyValidatedRecordsAreHashed ==
  /\ HashGenerationReached =>
       /\ IsValidOperation(cli.tx.operation)
       /\ IsValidNonce(cli.tx.nonce)
  /\ HashesPrinted =>
       /\ IsValidOperation(Given(cli.options.text, "operation"))
       /\ IsValidNonce(Given(cli.options.text, "nonce"))

C28_Witness ==
  /\ cli.pc = "done"
  /\ cli.options.text = JsonText(With(UsageMembers, "operation", Num(2)))
  /\ cli.tx.operation = Num(2)
  /\ cli.exitCode = "0"
  /\ HashesPrinted

(* The preimage of the message hash, and getAllHashes. *)

\* the fifth word of the encoding, the one of the operation
OperationWord == SubSeq(locals.encodedData, 129, 160)

\* C24 as stated: the operation byte is the first byte of its 32-byte word
\* and the remaining 31 bytes are zero.
C24_OperationByteFirst ==
  locals.encodedData # <<>> =>
    /\ Len(locals.encodedData) = 352
    /\ OperationWord = <<call.tx.operation>> \o Zeros(31)

\* C24, amended: the operation is encoded as a uint8, a big-endian 32-byte
\* word: its first 31 bytes are zero and the operation byte is the last; these
\* are the bytes whose keccak256 calculateRawSafeTxHash returns.
C24_OperationByteLast ==
  /\ locals.encodedData # <<>> =>
       /\ Len(locals.encodedData) = 352
       /\ OperationWord = Zeros(31) \o <<call.tx.operation>>
  /\ pc = "compared" => locals.direct.raw = keccak256(locals.encodedData)

C24_Witness ==
  /\ pc = "compared"
  /\ call.tx = DelegateTx
  /\ locals.encodedData[160] = 1
  /\ locals.encodedData[129] = 0

\* C25: getAllHashes has the message hash before it computes the final hash,
\* and the triple it returns is consistent: messageHash is what
\* calculateRawSafeTxHash returns, domainHash what getDomainHash returns,
\* safeTxHash what calculateFinalSafeTxHash returns, which is the keccak256 of
\* 0x19, 0x01, that domainHash and that messageHash; calculateMessageHash and
\* calculateSafeTransactionHash return what calculateRawSafeTxHash and
\* calculateFinalSafeTxHash return.
C25_AllHashesConsistent ==
  /\ locals.safeTxHash # <<>> => locals.messageHash # <<>>
  /\ pc \in {"returned", "compared"} =>
       /\ ret.messageHash = locals.messageHash
       /\ ret.safeTxHash = locals.safeTxHash
  /\ pc = "compared" =>
       /\ ret.messageHash = locals.direct.raw
       /\ ret.domainHash = locals.direct.domainHash
       /\ ret.safeTxHash = locals.direct.final
       /\ ret.safeTxHash = keccak256(<<25, 1>> \o ret.domainHash \o ret.messageHash)
       /\ locals.direct.message = locals.direct.raw
       /\ locals.direct.safeTransaction = locals.direct.final

C25_Witness ==
  /\ pc = "compared"
  /\ call.inst = "ethers"
  /\ call.tx = TestTx
  /\ Len(ret.messageHash) = 32
  /\ Len(ret.safeTxHash) = 32
  /\ ret.safeTxHash # ret.messageHash
  /\ ret.messageHash = locals.direct.message

(* The decoder's selector lookup and the text it returns. *)

\* C26: decodeFunctionCall finds a selector by the value of its 4 bytes: for
\* every valid input of 4 bytes or more whose first 4 bytes are a selector of
\* the table, the result has the table's name, in whatever case the hex
\* digits of the selector are written.
C26_SelectorFoundByValue ==
  ( /\ Returned("decodeFunctionCall")
    /\ IsEvenHexString(decoder.arg)
    /\ ByteLength(decoder.arg) >= 4
    /\ IsKnownSelector(SelectorBytes(decoder.arg)) ) =>
      /\ decoder.result.success
      /\ "name" \in DOMAIN decoder.result
      /\ decoder.result.name = TableEntry(SelectorBytes(decoder.arg)).name

\* the transfer call of the tests with its selector in upper-case digits and
\* one byte more: no name comes back
C26_Witness ==
  /\ Returned("decodeFunctionCall")
  /\ decoder.arg = <<"0", "x", "A", "9", "0", "5", "9", "C", "B", "B">>
                     \o SubSeq(hexlify(TransferData), 11, 138) \o <<"0", "0">>
  /\ SelectorBytes(decoder.arg) = <<169, 5, 156, 187>>
  /\ TableEntry(SelectorBytes(decoder.arg)).name = <<"t", "r", "a", "n", "s", "f", "e", "r">>
  /\ "name" \notin DOMAIN decoder.result

\* C27: for valid data of 32 bytes or more, the value of a success of
\* decodeAsciiData has no white space at its start or end and no NUL
\* character.
C27_ValueIsTrimmedAndNulFree ==
  ( /\ Returned("decodeAsciiData")
    /\ IsEvenHexString(decoder.arg)
    /\ ByteLength(decoder.arg) >= 32
    /\ decoder.result.success ) =>
      LET value == decoder.result.value
      IN  /\ \A k \in 1..Len(value) : value[k] # "NUL"
          /\ value # <<>> =>
               /\ value[1] \notin WhiteSpace
               /\ value[Len(value)] \notin WhiteSpace

\* "a", a space and a zero byte of padding: the space stays
C27_Witness ==
  /\ Returned("decodeAsciiData")
  /\ decoder.arg = hexlify(Zeros(31) \o <<138>> \o <<97, 32, 0>>)
  /\ decoder.result = [success |-> TRUE, value |-> <<"a", " ">>]

====
